---- MODULE Spec2Model ----
(***************************************************************************)
(* Model of the research-agent backend: the session layer (Redis-backed    *)
(* SessionStore, RequireAuth middleware, auth handlers) and the research   *)
(* handlers (the Create pipeline, Delete, Get, List and the downloads)     *)
(* over the Result Store (MongoDB) and the Artifact Store (MinIO).         *)
(*                                                                         *)
(* Strings of the program are TLA+ strings, except the topic, which is a   *)
(* sequence of bytes because the code slices it, and an object key, which  *)
(* is the triple <<owner id, slug, extension>> that                        *)
(* fmt.Sprintf("%s/%s.pdf", ...) writes, or <<>> for the empty string.     *)
(***************************************************************************)
EXTENDS Integers, Sequences, FiniteSets, TLC

VARIABLES
    users,      \* Identity Store: the rows of the users table
    nextUid,    \* number of rows ever inserted (gen_random_uuid is fresh)
    rdb,        \* Credential Store: session id -> [val, exp]
    nextSid,    \* number of session ids ever generated (uuid.New is fresh)
    now,        \* wall clock, in hours
    issued,     \* history: session id -> [user, at] of the login that made it
    revoked,    \* history: session ids on which SessionStore.Delete was called
    docs,       \* Result Store: ObjectID hex -> Document
    nextOid,    \* number of documents ever inserted (ObjectIDs are fresh)
    objects,    \* Artifact Store: object key -> bytes
    req         \* the requests in flight or just answered, one per connection

vars == <<users, nextUid, rdb, nextSid, now, issued, revoked, docs, nextOid, objects, req>>

authVars == <<users, nextUid, rdb, nextSid, now, issued, revoked>>
storeVars == <<docs, nextOid, objects>>

-----------------------------------------------------------------------------
(* Bounds of the model. *)

MaxUsers == 2
MaxSessions == 2
MaxClock == 24
TickStep == 12
MaxDocs == 2

(* Program constants. *)

SessionTTL == 24
SlugLen == 20
SessionCookie == "session_id"
DefaultModel == "mistral-medium-latest"

StatusOK == 200
StatusCreated == 201
StatusBadRequest == 400
StatusUnauthorized == 401
StatusNotFound == 404
StatusConflict == 409
StatusInternalServerError == 500
StatusBadGateway == 502

Slots == {1, 2}
NoCookie == [present |-> FALSE, value |-> ""]
Cookie(v) == [present |-> TRUE, value |-> v]

Uuid(n) == "u" \o ToString(n)
Sid(n) == "s" \o ToString(n)

-----------------------------------------------------------------------------
(* Identity Store (PostgreSQL) and bcrypt. *)

\* bcrypt.GenerateFromPassword: a salted one-way hash of the password.
\* A store of the password as it was typed.
GenerateFromPasswordPlain(pw, salt) == <<"plain", salt, pw>>

GenerateFromPassword(pw, salt) == <<"bcrypt", salt, pw>>

\* A comparison that accepts any password.
CompareHashAndPasswordAny(hash, pw) == TRUE

\* bcrypt.CompareHashAndPassword: TRUE when the password matches the hash.
CompareHashAndPassword(hash, pw) ==
    /\ Len(hash) = 3
    /\ hash[1] = "bcrypt"
    /\ hash[3] = pw

NoUserRow == [id |-> "", username |-> "", email |-> "", password |-> <<>>, created_at |-> 0]

\* INSERT INTO users ... RETURNING id, username, email, created_at.
\* Both username and email are UNIQUE; dbOk = FALSE is a database failure.
CreateUser(rows, username, email, hashed, uid, t, dbOk) ==
    IF ~dbOk THEN [err |-> "db", user |-> NoUserRow, rows |-> rows]
    ELSE IF \E u \in rows : u.username = username \/ u.email = email
    THEN [err |-> "unique", user |-> NoUserRow, rows |-> rows]
    ELSE LET row == [id |-> uid, username |-> username, email |-> email,
                     password |-> hashed, created_at |-> t]
         IN [err |-> "", user |-> [row EXCEPT !.password = <<>>],
             rows |-> rows \cup {row}]

\* SELECT id, username, email, password, created_at ... WHERE email = $1.
GetUserByEmail(rows, email, dbOk) ==
    IF ~dbOk THEN [err |-> "db", user |-> NoUserRow]
    ELSE IF \E u \in rows : u.email = email
    THEN [err |-> "", user |-> CHOOSE u \in rows : u.email = email]
    ELSE [err |-> "no rows", user |-> NoUserRow]

\* SELECT id, username, email, created_at ... WHERE id = $1 (no password).
GetUserByID(rows, id, dbOk) ==
    IF ~dbOk THEN [err |-> "db", user |-> NoUserRow]
    ELSE IF \E u \in rows : u.id = id
    THEN [err |-> "", user |-> [(CHOOSE u \in rows : u.id = id) EXCEPT !.password = <<>>]]
    ELSE [err |-> "no rows", user |-> NoUserRow]

\* An encoding of every field of the row.
UserJSONWhole(u) == u

\* json.Encoder on models.User: Password carries the tag json:"-".
UserJSON(u) == [id |-> u.id, username |-> u.username, email |-> u.email,
                created_at |-> u.created_at]

-----------------------------------------------------------------------------
(* Credential Store (Redis) and SessionStore. *)

\* A key is live until its TTL has run out.
Live(db, sid, t) == sid \in DOMAIN db /\ t < db[sid].exp

\* Redis drops the keys whose TTL has run out.
Expire(db, t) == [k \in {k \in DOMAIN db : t < db[k].exp} |-> db[k]]

\* A Set whose entry outlives the cookie.
SessionCreateLongLived(db, sid, userID, t, up) ==
    IF up
    THEN [err |-> "", sid |-> sid,
          db |-> [k \in DOMAIN db \cup {sid} |->
                    IF k = sid THEN [val |-> userID, exp |-> t + 2 * SessionTTL] ELSE db[k]]]
    ELSE [err |-> "redis", sid |-> sid, db |-> db]

\* rdb.Set(ctx, "session:"+sid, userID, SessionTTL)
SessionCreate(db, sid, userID, t, up) ==
    IF up
    THEN [err |-> "", sid |-> sid,
          db |-> [k \in DOMAIN db \cup {sid} |->
                    IF k = sid THEN [val |-> userID, exp |-> t + SessionTTL] ELSE db[k]]]
    ELSE [err |-> "redis", sid |-> sid, db |-> db]

\* rdb.Get(ctx, "session:"+sessionID): redis.Nil becomes ("", nil).
SessionGet(db, sid, t, up) ==
    IF ~up THEN [val |-> "", err |-> "redis"]
    ELSE IF Live(db, sid, t) THEN [val |-> db[sid].val, err |-> ""]
    ELSE [val |-> "", err |-> ""]

\* A Get that takes the TTL off the key it reads (GETEX ... PERSIST): the key
\* outlives every clock value.
SessionsAfterGetPersist(db, sid, t, up) ==
    IF up /\ sid \in DOMAIN db /\ t < db[sid].exp
    THEN [db EXCEPT ![sid].exp = db[sid].exp + MaxClock + 1]
    ELSE db

\* A Get that restarts the TTL of the key it reads (refresh on access).
SessionsAfterGetSliding(db, sid, t, up) ==
    IF up /\ sid \in DOMAIN db /\ t < db[sid].exp
    THEN [db EXCEPT ![sid].exp = t + 24]
    ELSE db

\* The store after a Get: a read leaves every key and every TTL as it was.
SessionsAfterGet(db, sid, t, up) == db

\* A revoke that overwrites the value with a marker and keeps the key.
SessionDeleteMarks(db, sid, up) ==
    IF up /\ sid \in DOMAIN db THEN [db EXCEPT ![sid].val = "revoked"] ELSE db

\* A revoke that ends every session of the token's user.
SessionDeleteOfUser(db, sid, up) ==
    IF up /\ sid \in DOMAIN db
    THEN [k \in {k \in DOMAIN db : db[k].val # db[sid].val} |-> db[k]]
    ELSE db

\* rdb.Del(ctx, "session:"+sessionID): deleting a missing key is no error.
SessionDelete(db, sid, up) ==
    IF up THEN [k \in DOMAIN db \ {sid} |-> db[k]] ELSE db

-----------------------------------------------------------------------------
(* RequireAuth middleware. *)

\* The body {"error": "<text><detail>"}; detail is the embedded upstream error.
ErrorWith(text, detail) == <<"error", text, detail>>
ErrorBody(text) == ErrorWith(text, <<>>)

\* A middleware that lets a request through whenever the store answered.
RequireAuthAnyAnswer(db, cookie, t, up) ==
    IF ~cookie.present
    THEN [pass |-> FALSE, status |-> StatusUnauthorized,
          body |-> ErrorBody("not authenticated"), userID |-> ""]
    ELSE LET g == SessionGet(db, cookie.value, t, up)
         IN IF g.err # ""
            THEN [pass |-> FALSE, status |-> StatusUnauthorized,
                  body |-> ErrorBody("session expired"), userID |-> ""]
            ELSE [pass |-> TRUE, status |-> 0, body |-> <<>>, userID |-> g.val]

\* pass: next.ServeHTTP is called with user_id in the request context.
RequireAuth(db, cookie, t, up) ==
    IF ~cookie.present
    THEN [pass |-> FALSE, status |-> StatusUnauthorized,
          body |-> ErrorBody("not authenticated"), userID |-> ""]
    ELSE LET g == SessionGet(db, cookie.value, t, up)
         IN IF g.err # "" \/ g.val = ""
            THEN [pass |-> FALSE, status |-> StatusUnauthorized,
                  body |-> ErrorBody("session expired"), userID |-> ""]
            ELSE [pass |-> TRUE, status |-> 0, body |-> <<>>, userID |-> g.val]

-----------------------------------------------------------------------------
(* Requests.  A connection carries one request at a time; req[s] holds the   *)
(* request on connection s from the router until the client has read the     *)
(* response.                                                                 *)

NoSetCookie == [set |-> FALSE, name |-> "", value |-> "", path |-> "",
                httpOnly |-> FALSE, sameSite |-> "", maxAge |-> 0]

\* pc: the handler's position; ran: the route handler was invoked;
\* resolved: what the Credential Store answered for the cookie when the
\* middleware asked ("" when it held nothing live or did not answer);
\* canceled: the request's context is done (the client went away);
\* events: what the handler wrote with log.Printf while serving it;
\* in: the decoded request; loc: the handler's locals; log: the
\* collaborator and store calls the handler made, in order.
Idle == [pc |-> "idle", route |-> "", cookie |-> NoCookie, userID |-> "",
         ran |-> FALSE, resolved |-> "", status |-> 0, body |-> <<>>,
         setCookie |-> NoSetCookie, in |-> <<>>, loc |-> <<>>, log |-> <<>>,
         canceled |-> FALSE, events |-> <<>>]

Free(s) == req[s].pc = "idle"

\* The response is written and the handler returns.
Respond(r, status, body) == [r EXCEPT !.pc = "done", !.status = status, !.body = body]

\* The cookies a client can send: none, a forged one, or any ever issued.
ClientCookies == {NoCookie, Cookie("forged")} \cup {Cookie(Sid(n)) : n \in 1..nextSid}

MeRoute == "GET /api/auth/me"
CreateRoute == "POST /api/research/"
ListRoute == "GET /api/research/"
GetRoute == "GET /api/research/{id}"
DeleteRoute == "DELETE /api/research/{id}"
PDFRoute == "GET /api/research/{id}/pdf"
TexRoute == "GET /api/research/{id}/tex"
RegisterRoute == "POST /api/auth/register"
LoginRoute == "POST /api/auth/login"
LogoutRoute == "POST /api/auth/logout"

\* main.go: the routes registered behind middleware.RequireAuth.
ProtectedRoutes == {MeRoute, CreateRoute, ListRoute, GetRoute, DeleteRoute, PDFRoute, TexRoute}

\* main.go: the routes registered without it.
OpenRoutes == {RegisterRoute, LoginRoute, LogoutRoute}

\* The router hands a request to its chain: the middleware, when the route
\* has one, answers 401 or invokes the handler with user_id in scope.
Route(route, cookie, in, up) ==
    LET base == [Idle EXCEPT !.route = route, !.cookie = cookie, !.in = in]
    IN IF route \in ProtectedRoutes
       THEN LET a == RequireAuth(rdb, cookie, now, up)
                seen == [base EXCEPT !.resolved =
                            IF up /\ cookie.present /\ cookie.value \in DOMAIN rdb
                               /\ now < rdb[cookie.value].exp
                            THEN rdb[cookie.value].val ELSE ""]
            IN IF a.pass
               THEN [seen EXCEPT !.pc = "handler", !.ran = TRUE, !.userID = a.userID]
               ELSE Respond(seen, a.status, a.body)
       ELSE [base EXCEPT !.pc = "handler", !.ran = TRUE]

\* The pipeline runs that have passed the middleware and not yet answered.
RunsInFlight == {t \in Slots : req[t].route = CreateRoute /\ req[t].pc \notin {"idle", "done"}}

\* A request to a protected route arrives: the middleware runs.
Begin(s, route, cookie, up, in) ==
    /\ Free(s)
    /\ route \in ProtectedRoutes
    /\ route = CreateRoute => nextOid + Cardinality(RunsInFlight) < MaxDocs
    /\ req' = [req EXCEPT ![s] = Route(route, cookie, in, up)]
    /\ rdb' = IF cookie.present THEN SessionsAfterGet(rdb, cookie.value, now, up) ELSE rdb
    /\ UNCHANGED <<users, nextUid, nextSid, now, issued, revoked, docs, nextOid, objects>>

\* The client has read the response; the connection is free again.
Close(s) ==
    /\ req[s].pc = "done"
    /\ req' = [req EXCEPT ![s] = Idle]
    /\ UNCHANGED <<authVars, storeVars>>

-----------------------------------------------------------------------------
(* Auth handlers. *)

\* Handler.Register
Register(s, username, email, password, dbOk) ==
    /\ Free(s)
    /\ nextUid < MaxUsers
    /\ LET r == Route(RegisterRoute, NoCookie,
                      [username |-> username, email |-> email, password |-> password], TRUE)
       IN IF username = "" \/ email = "" \/ password = ""
          THEN /\ req' = [req EXCEPT ![s] = Respond(r, StatusBadRequest,
                              ErrorBody("username, email, and password are required"))]
               /\ UNCHANGED <<users, nextUid>>
          ELSE LET hashed == GenerateFromPassword(password, nextUid + 1)
                   c == CreateUser(users, username, email, hashed, Uuid(nextUid + 1), now, dbOk)
               IN IF c.err # ""
                  THEN /\ req' = [req EXCEPT ![s] = Respond(r, StatusConflict,
                                      ErrorBody("user already exists or database error"))]
                       /\ UNCHANGED <<users, nextUid>>
                  ELSE /\ req' = [req EXCEPT ![s] =
                                      Respond(r, StatusCreated, <<"user", UserJSON(c.user)>>)]
                       /\ users' = c.rows
                       /\ nextUid' = nextUid + 1
    /\ UNCHANGED <<rdb, nextSid, now, issued, revoked, storeVars>>

\* The cookie Login sets.
LoginCookie(sid) == [set |-> TRUE, name |-> SessionCookie, value |-> sid, path |-> "/",
                     httpOnly |-> TRUE, sameSite |-> "Lax", maxAge |-> SessionTTL]

\* The cookie Logout sets.
LogoutCookie == [set |-> TRUE, name |-> SessionCookie, value |-> "", path |-> "/",
                 httpOnly |-> TRUE, sameSite |-> "", maxAge |-> -1]

\* A rejection that tells an unknown email from a wrong password.
LoginRejectTelling(found) ==
    IF found
    THEN [status |-> StatusUnauthorized, body |-> ErrorBody("invalid credentials")]
    ELSE [status |-> StatusNotFound, body |-> ErrorBody("user not found")]

\* Handler.Login's answer to a login it turns away, whether the lookup by
\* email gave a user (found) or not: both branches write the same line.
LoginReject(found) ==
    [status |-> StatusUnauthorized, body |-> ErrorBody("invalid credentials")]

\* Handler.Login
Login(s, email, password, dbOk, up) ==
    /\ Free(s)
    /\ nextSid < MaxSessions
    /\ LET r == Route(LoginRoute, NoCookie, [email |-> email, password |-> password], TRUE)
           g == GetUserByEmail(users, email, dbOk)
       IN IF g.err # ""
          THEN /\ req' = [req EXCEPT ![s] =
                              Respond(r, LoginReject(FALSE).status, LoginReject(FALSE).body)]
               /\ UNCHANGED <<rdb, nextSid, issued>>
          ELSE IF ~CompareHashAndPassword(g.user.password, password)
          THEN /\ req' = [req EXCEPT ![s] =
                              Respond(r, LoginReject(TRUE).status, LoginReject(TRUE).body)]
               /\ UNCHANGED <<rdb, nextSid, issued>>
          ELSE LET c == SessionCreate(rdb, Sid(nextSid + 1), g.user.id, now, up)
               IN /\ nextSid' = nextSid + 1
                  /\ rdb' = c.db
                  /\ IF c.err # ""
                     THEN /\ req' = [req EXCEPT ![s] = Respond(r, StatusInternalServerError,
                                         ErrorBody("session creation failed"))]
                          /\ UNCHANGED issued
                     ELSE /\ req' = [req EXCEPT ![s] =
                                         Respond([r EXCEPT !.setCookie = LoginCookie(c.sid)],
                                                 StatusOK, <<"user", UserJSON(g.user)>>)]
                          /\ issued' = [k \in DOMAIN issued \cup {c.sid} |->
                                          IF k = c.sid THEN [user |-> g.user.id, at |-> now]
                                          ELSE issued[k]]
    /\ UNCHANGED <<users, nextUid, now, revoked, storeVars>>

\* Handler.Logout: the error of sessions.Delete is dropped.
Logout(s, cookie, up) ==
    /\ Free(s)
    /\ LET r == Route(LogoutRoute, cookie, <<>>, up)
       IN /\ req' = [req EXCEPT ![s] =
                        Respond([r EXCEPT !.setCookie = LogoutCookie],
                                StatusOK, <<"message", "logged out">>)]
          /\ rdb' = IF cookie.present THEN SessionDelete(rdb, cookie.value, up) ELSE rdb
          /\ revoked' = IF cookie.present /\ up THEN revoked \cup {cookie.value} ELSE revoked
    /\ UNCHANGED <<users, nextUid, nextSid, now, issued, storeVars>>

\* Handler.Me, invoked by RequireAuth.
Me(s, dbOk) ==
    /\ req[s].pc = "handler"
    /\ req[s].route = MeRoute
    /\ LET r == req[s]
           g == GetUserByID(users, r.userID, dbOk)
       IN IF g.err # ""
          THEN req' = [req EXCEPT ![s] =
                          Respond(r, StatusNotFound, ErrorBody("user not found"))]
          ELSE req' = [req EXCEPT ![s] = Respond(r, StatusOK, <<"user", UserJSON(g.user)>>)]
    /\ UNCHANGED <<authVars, storeVars>>

\* Time passes; Redis drops the keys whose TTL has run out.
Tick ==
    /\ now + TickStep <= MaxClock
    /\ now' = now + TickStep
    /\ rdb' = Expire(rdb, now + TickStep)
    /\ UNCHANGED <<users, nextUid, nextSid, issued, revoked, storeVars, req>>

-----------------------------------------------------------------------------
(* Result Store (MongoDB). *)

OidHex(n) == "d" \o ToString(n)

\* primitive.ObjectIDFromHex accepts the 24-digit hex strings only.
IsObjectIDHex(id) == id \in {OidHex(n) : n \in 0..(MaxDocs + 1)}

NoDoc == [id |-> "", user_id |-> "", topic |-> <<>>, latex_content |-> "",
          sources |-> <<>>, model_used |-> "", search_queries |-> <<>>,
          pdf_object_key |-> <<>>, tex_object_key |-> <<>>, created_at |-> 0]

\* The empty object key.
NoKey == <<>>

\* MongoStore.Insert: stamps CreatedAt, InsertOne assigns the _id.
MongoInsert(d, doc, oid, t, ok) ==
    IF ~ok THEN [err |-> "mongo insert", id |-> "", docs |-> d]
    ELSE [err |-> "", id |-> oid,
          docs |-> [k \in DOMAIN d \cup {oid} |->
                      IF k = oid THEN [doc EXCEPT !.id = oid, !.created_at = t] ELSE d[k]]]

\* MongoStore.GetByID: a malformed id, a missing document and a store fault
\* are all errors.
MongoGetByID(d, id, ok) ==
    IF ~IsObjectIDHex(id) THEN [err |-> "invalid id", found |-> FALSE, doc |-> NoDoc]
    ELSE IF ~ok THEN [err |-> "mongo", found |-> FALSE, doc |-> NoDoc]
    ELSE IF id \notin DOMAIN d THEN [err |-> "no documents", found |-> FALSE, doc |-> NoDoc]
    ELSE [err |-> "", found |-> TRUE, doc |-> d[id]]

\* MongoStore.Delete: DeleteOne of a missing document is no error.
MongoDelete(d, id, ok) ==
    IF ~IsObjectIDHex(id) THEN [err |-> "invalid id", docs |-> d]
    ELSE IF ~ok THEN [err |-> "mongo", docs |-> d]
    ELSE [err |-> "", docs |-> [k \in DOMAIN d \ {id} |-> d[k]]]

-----------------------------------------------------------------------------
(* Artifact Store (MinIO). *)

\* MinioStore.Upload: PutObject writes the object, replacing one of that key.
MinioUpload(o, key, data, contentType, ok) ==
    IF ~ok THEN [err |-> "minio", objects |-> o]
    ELSE [err |-> "",
          objects |-> [k \in DOMAIN o \cup {key} |->
                         IF k = key THEN [data |-> data, contentType |-> contentType]
                         ELSE o[k]]]

\* MinioStore.Download
MinioDownload(o, key, ok) ==
    IF ~ok \/ key \notin DOMAIN o THEN [err |-> "minio", data |-> <<>>, contentType |-> ""]
    ELSE [err |-> "", data |-> o[key].data, contentType |-> o[key].contentType]

\* MinioStore.Remove: RemoveObject of a missing key is no error.
MinioRemove(o, key, ok) ==
    IF ~ok THEN [err |-> "minio", objects |-> o]
    ELSE [err |-> "", objects |-> [k \in DOMAIN o \ {key} |-> o[k]]]

-----------------------------------------------------------------------------
(* The remote collaborators.  An outcome o is what the network and the      *)
(* service did with one call: o.kind is "transport" (no response), "status" *)
(* (a non-2xx response), "decode" (a 2xx response that does not decode),    *)
(* "read" (a 2xx response whose body breaks off) or "ok"; o.value is the    *)
(* decoded field of the response.                                           *)

NilBytes == <<>>
Bytes(content) == <<"bytes", content>>

\* checkResp and the transport: the error a call returns before decoding.
CallErr(o, service, path) ==
    CASE o.kind = "transport" -> <<service, path, "transport">>
      [] o.kind = "status" -> <<service, path, "returned", o.code>>
      [] OTHER -> <<>>

\* AIClient.GenerateQueries
GenerateQueries(o) ==
    IF o.kind \in {"transport", "status"}
    THEN [err |-> CallErr(o, "ai-service", "/api/generate-queries"), queries |-> <<>>]
    ELSE IF o.kind # "ok"
    THEN [err |-> <<"ai-service", "/api/generate-queries", "decode">>, queries |-> <<>>]
    ELSE [err |-> <<>>, queries |-> o.value]

\* A Search that answers a failed call with no sources.
SearchLenient(o) ==
    IF o.kind # "ok"
    THEN [err |-> <<>>, sources |-> <<>>]
    ELSE [err |-> <<>>, sources |-> o.value]

\* AIClient.Search
Search(o) ==
    IF o.kind \in {"transport", "status"}
    THEN [err |-> CallErr(o, "ai-service", "/api/search"), sources |-> <<>>]
    ELSE IF o.kind # "ok"
    THEN [err |-> <<"ai-service", "/api/search", "decode">>, sources |-> <<>>]
    ELSE [err |-> <<>>, sources |-> o.value]

\* AIClient.GenerateReport
GenerateReport(o) ==
    IF o.kind \in {"transport", "status"}
    THEN [err |-> CallErr(o, "ai-service", "/api/generate-report"), latexBody |-> ""]
    ELSE IF o.kind # "ok"
    THEN [err |-> <<"ai-service", "/api/generate-report", "decode">>, latexBody |-> ""]
    ELSE [err |-> <<>>, latexBody |-> o.value]

\* LaTeXClient.CompilePDF: after a 2xx status it returns io.ReadAll(resp.Body),
\* which hands back the bytes read so far (never nil) together with the error
\* when the body breaks off.
CompilePDF(o) ==
    IF o.kind \in {"transport", "status"}
    THEN [err |-> CallErr(o, "latex-service", "/api/compile-pdf"), pdfBytes |-> NilBytes]
    ELSE IF o.kind # "ok"
    THEN [err |-> <<"unexpected EOF">>, pdfBytes |-> Bytes(o.value)]
    ELSE [err |-> <<>>, pdfBytes |-> Bytes(o.value)]

\* LaTeXClient.CompileTex
CompileTex(o) ==
    IF o.kind \in {"transport", "status"}
    THEN [err |-> CallErr(o, "latex-service", "/api/compile-tex"), texSource |-> ""]
    ELSE IF o.kind # "ok"
    THEN [err |-> <<"latex-service", "/api/compile-tex", "decode">>, texSource |-> ""]
    ELSE [err |-> <<>>, texSource |-> o.value]

-----------------------------------------------------------------------------
(* Handler.Create: the pipeline. *)

\* DepthConfig maps depth names to <<query count, results per query>>.
DepthConfig == [Quick |-> <<2, 3>>, Standard |-> <<4, 5>>, Deep |-> <<6, 7>>]

\* A lookup that falls back to the smallest configuration.
DepthOfFallbackQuick(depth) ==
    LET d == IF depth = "" THEN "Standard" ELSE depth
    IN IF d \in DOMAIN DepthConfig THEN DepthConfig[d] ELSE DepthConfig["Quick"]

\* depth, ok := DepthConfig[req.Depth], after "" has become "Standard".
DepthOf(depth) ==
    LET d == IF depth = "" THEN "Standard" ELSE depth
    IN IF d \in DOMAIN DepthConfig THEN DepthConfig[d] ELSE DepthConfig["Standard"]

\* A model name passed on as it was sent.
ModelOfAsSent(model) == model

\* if req.Model == "" { req.Model = "mistral-medium-latest" }
ModelOf(model) == IF model = "" THEN DefaultModel ELSE model

\* A truncation that keeps the last maxQueries entries.
TruncateTail(queries, maxQueries) ==
    IF Len(queries) > maxQueries
    THEN SubSeq(queries, Len(queries) - maxQueries + 1, Len(queries))
    ELSE queries

\* queries[:maxQueries] when there are more than maxQueries.
Truncate(queries, maxQueries) ==
    IF Len(queries) > maxQueries THEN SubSeq(queries, 1, maxQueries) ELSE queries

\* The context string: one line per source.
ContextOf(sources) ==
    [i \in 1..Len(sources) |->
        <<"- ", sources[i].title, ": ", sources[i].body, " (Source: ", sources[i].href, ")\n">>]

\* A slug that is the whole topic.
TopicSlugWhole(topic) == topic

\* topicSlug: the first 20 bytes of the topic.
TopicSlug(topic) == IF Len(topic) > SlugLen THEN SubSeq(topic, 1, SlugLen) ELSE topic

\* fmt.Sprintf("%s/%s.pdf", userID, topicSlug), and likewise ".tex"
ObjectKey(userID, slug, ext) == <<userID, slug, ext>>

\* log.Printf(event, ...) by the handler serving r; when cond, in PrintfIf.
Printf(r, event) == [r EXCEPT !.events = Append(r.events, event)]
PrintfIf(cond, r, event) == IF cond THEN Printf(r, event) ELSE r

\* One entry of the log: the call, its arguments, and what came of it
\* (the collaborator's outcome, or whether the store did as asked).
Logged(r, call, args, out) ==
    [r EXCEPT !.log = Append(r.log, [call |-> call, args |-> args, out |-> out])]

\* The locals of Create before the first collaborator call.
CreateLocals == [model |-> "", maxQueries |-> 0, resultsPerQuery |-> 0, queries |-> <<>>,
                 sources |-> <<>>, latexBody |-> "", pdfBytes |-> NilBytes, pdfErr |-> <<>>,
                 texSource |-> "", texErr |-> <<>>, pdfKey |-> NoKey, texKey |-> NoKey,
                 docID |-> "", failed |-> ""]

\* A validation that asks for the topic only.
MissingFieldsTopicOnly(in) == in.topic = <<>>

\* req.Topic == "" || req.APIKey == ""
MissingFields(in) == in.topic = <<>> \/ in.api_key = ""

\* Decoding, validation and defaults, then step 1: generate search queries.
CreatePlan(s, o) ==
    /\ req[s].pc = "handler"
    /\ req[s].route = CreateRoute
    /\ LET r == req[s]
           in == r.in
       IN IF ~in.bodyOk
          THEN req' = [req EXCEPT ![s] =
                          Respond(r, StatusBadRequest, ErrorBody("invalid request body"))]
          ELSE IF MissingFields(in)
          THEN req' = [req EXCEPT ![s] =
                          Respond(r, StatusBadRequest, ErrorBody("topic and api_key are required"))]
          ELSE LET model == ModelOf(in.model)
                   depth == DepthOf(in.depth)
                   g == GenerateQueries(o)
                   called == Logged(r, "generate-queries", <<in.api_key, model, in.topic>>, o)
                   loc == [CreateLocals EXCEPT !.model = model, !.maxQueries = depth[1],
                                               !.resultsPerQuery = depth[2]]
               IN IF g.err # <<>>
                  THEN req' = [req EXCEPT ![s] =
                                  Respond([Printf(called, "generate-queries error") EXCEPT !.loc = [loc EXCEPT !.failed = "plan"]],
                                          StatusBadGateway,
                                          ErrorWith("Failed to generate search queries: ", g.err))]
                  ELSE req' = [req EXCEPT ![s] =
                                  [called EXCEPT !.pc = "search",
                                     !.loc = [loc EXCEPT !.queries = Truncate(g.queries, depth[1])]]]
    /\ UNCHANGED <<authVars, storeVars>>

\* A search that hands over to the PDF compilation, leaving the drafting out.
CreateSearchThenCompile(s, o) ==
    /\ req[s].pc = "search"
    /\ LET r == req[s]
           g == Search(o)
           called == Logged(r, "search", <<r.loc.queries, r.loc.resultsPerQuery>>, o)
       IN IF g.err # <<>>
          THEN req' = [req EXCEPT ![s] =
                          Respond([Printf(called, "search error") EXCEPT !.loc.failed = "search"], StatusBadGateway,
                                  ErrorWith("Web search failed: ", g.err))]
          ELSE req' = [req EXCEPT ![s] =
                          [called EXCEPT !.pc = "pdf", !.loc.sources = g.sources]]
    /\ UNCHANGED <<authVars, storeVars>>

\* Step 2: web search, then the context string.
CreateSearch(s, o) ==
    /\ req[s].pc = "search"
    /\ LET r == req[s]
           g == Search(o)
           called == Logged(r, "search", <<r.loc.queries, r.loc.resultsPerQuery>>, o)
       IN IF g.err # <<>>
          THEN req' = [req EXCEPT ![s] =
                          Respond([Printf(called, "search error") EXCEPT !.loc.failed = "search"], StatusBadGateway,
                                  ErrorWith("Web search failed: ", g.err))]
          ELSE req' = [req EXCEPT ![s] =
                          [called EXCEPT !.pc = "report", !.loc.sources = g.sources]]
    /\ UNCHANGED <<authVars, storeVars>>

\* A test that never finds the body empty.
EmptyReportNever(latexBody) == FALSE

\* if latexBody == ""
EmptyReport(latexBody) == latexBody = ""

\* Step 3: generate report.
CreateReport(s, o) ==
    /\ req[s].pc = "report"
    /\ LET r == req[s]
           g == GenerateReport(o)
           called == Logged(r, "generate-report",
                            <<r.in.api_key, r.loc.model, r.in.topic,
                              ContextOf(r.loc.sources), r.loc.sources>>, o)
       IN IF g.err # <<>>
          THEN req' = [req EXCEPT ![s] =
                          Respond([Printf(called, "generate-report error") EXCEPT !.loc.failed = "report"], StatusBadGateway,
                                  ErrorWith("Report generation failed: ", g.err))]
          ELSE IF EmptyReport(g.latexBody)
          THEN req' = [req EXCEPT ![s] =
                          Respond([Printf(called, "generate-report returned empty body") EXCEPT !.loc.failed = "empty"], StatusBadGateway,
                                  ErrorBody("AI service returned an empty report. Try again or use a different model."))]
          ELSE req' = [req EXCEPT ![s] =
                          [called EXCEPT !.pc = "pdf", !.loc.latexBody = g.latexBody]]
    /\ UNCHANGED <<authVars, storeVars>>

\* Step 4: compile PDF; an error is logged and the run goes on.
CreateCompilePDF(s, o) ==
    /\ req[s].pc = "pdf"
    /\ LET r == req[s]
           g == CompilePDF(o)
           called == Logged(r, "compile-pdf", <<r.loc.latexBody, r.in.topic>>, o)
       IN req' = [req EXCEPT ![s] =
                     [PrintfIf(g.err # <<>>, called, "compile-pdf error (non-fatal)") EXCEPT !.pc = "tex", !.loc.pdfBytes = g.pdfBytes,
                                    !.loc.pdfErr = g.err]]
    /\ UNCHANGED <<authVars, storeVars>>

\* A .tex compilation that is tried again for as long as it fails.
CreateCompileTexRetrying(s, o) ==
    /\ req[s].pc = "tex"
    /\ LET r == req[s]
           g == CompileTex(o)
           called == Logged(r, "compile-tex", <<r.loc.latexBody, r.in.topic>>, o)
       IN req' = [req EXCEPT ![s] =
                     [PrintfIf(g.err # <<>>, called, "compile-tex error (non-fatal)") EXCEPT !.pc = IF g.err # <<>> THEN "tex" ELSE "upload-pdf",
                                    !.loc.texSource = g.texSource, !.loc.texErr = g.err]]
    /\ UNCHANGED <<authVars, storeVars>>

\* Step 5: compile .tex; an error is logged and the run goes on.
CreateCompileTex(s, o) ==
    /\ req[s].pc = "tex"
    /\ LET r == req[s]
           g == CompileTex(o)
           called == Logged(r, "compile-tex", <<r.loc.latexBody, r.in.topic>>, o)
       IN req' = [req EXCEPT ![s] =
                     [PrintfIf(g.err # <<>>, called, "compile-tex error (non-fatal)") EXCEPT !.pc = "upload-pdf", !.loc.texSource = g.texSource,
                                    !.loc.texErr = g.err]]
    /\ UNCHANGED <<authVars, storeVars>>

\* A store call made with r.Context(): it fails once the context is done.
CtxOk(r, ok) == ok /\ ~r.canceled

\* The client goes away while Create runs: net/http cancels r.Context().
Cancel(s) ==
    /\ req[s].route = CreateRoute
    /\ req[s].pc \notin {"idle", "done"}
    /\ ~req[s].canceled
    /\ req' = [req EXCEPT ![s].canceled = TRUE]
    /\ UNCHANGED <<authVars, storeVars>>

\* A PDF upload whose failure leaves the key in place.
CreateUploadPDFKeepsKey(s, ok) ==
    /\ req[s].pc = "upload-pdf"
    /\ LET r == req[s]
           slug == TopicSlug(r.in.topic)
           pdfKey == ObjectKey(r.userID, slug, "pdf")
           texKey == ObjectKey(r.userID, slug, "tex")
           u == MinioUpload(objects, pdfKey, r.loc.pdfBytes, "application/pdf", CtxOk(r, ok))
       IN IF r.loc.pdfBytes # NilBytes
          THEN /\ objects' = u.objects
               /\ req' = [req EXCEPT ![s] =
                             [PrintfIf(u.err # "",
                                       Logged(r, "upload", <<pdfKey, r.loc.pdfBytes, "application/pdf">>,
                                              CtxOk(r, ok)),
                                       "minio pdf upload error")
                                EXCEPT !.pc = "upload-tex", !.loc.texKey = texKey,
                                       !.loc.pdfKey = pdfKey]]
          ELSE /\ objects' = objects
               /\ req' = [req EXCEPT ![s] =
                             [r EXCEPT !.pc = "upload-tex", !.loc.texKey = texKey,
                                       !.loc.pdfKey = NoKey]]
    /\ UNCHANGED <<authVars, docs, nextOid>>

\* Step 6, first half: the keys, and the PDF upload when pdfBytes != nil.
CreateUploadPDF(s, ok) ==
    /\ req[s].pc = "upload-pdf"
    /\ LET r == req[s]
           slug == TopicSlug(r.in.topic)
           pdfKey == ObjectKey(r.userID, slug, "pdf")
           texKey == ObjectKey(r.userID, slug, "tex")
           u == MinioUpload(objects, pdfKey, r.loc.pdfBytes, "application/pdf", CtxOk(r, ok))
       IN IF r.loc.pdfBytes # NilBytes
          THEN /\ objects' = u.objects
               /\ req' = [req EXCEPT ![s] =
                             [PrintfIf(u.err # "",
                                       Logged(r, "upload", <<pdfKey, r.loc.pdfBytes, "application/pdf">>,
                                              CtxOk(r, ok)),
                                       "minio pdf upload error")
                                EXCEPT !.pc = "upload-tex", !.loc.texKey = texKey,
                                       !.loc.pdfKey = IF u.err # "" THEN NoKey ELSE pdfKey]]
          ELSE /\ objects' = objects
               /\ req' = [req EXCEPT ![s] =
                             [r EXCEPT !.pc = "upload-tex", !.loc.texKey = texKey,
                                       !.loc.pdfKey = NoKey]]
    /\ UNCHANGED <<authVars, docs, nextOid>>

\* Step 6, second half: the .tex upload when texSource != "".
CreateUploadTex(s, ok) ==
    /\ req[s].pc = "upload-tex"
    /\ LET r == req[s]
           texKey == r.loc.texKey
           u == MinioUpload(objects, texKey, Bytes(r.loc.texSource), "application/x-tex", CtxOk(r, ok))
       IN IF r.loc.texSource # ""
          THEN /\ objects' = u.objects
               /\ req' = [req EXCEPT ![s] =
                             [PrintfIf(u.err # "",
                                       Logged(r, "upload",
                                              <<texKey, Bytes(r.loc.texSource), "application/x-tex">>,
                                              CtxOk(r, ok)),
                                       "minio tex upload error")
                                EXCEPT !.pc = "insert",
                                       !.loc.texKey = IF u.err # "" THEN NoKey ELSE texKey]]
          ELSE /\ objects' = objects
               /\ req' = [req EXCEPT ![s] = [r EXCEPT !.pc = "insert", !.loc.texKey = NoKey]]
    /\ UNCHANGED <<authVars, docs, nextOid>>

\* The models.Document that Create builds.
DocumentOf(r) ==
    [NoDoc EXCEPT !.user_id = r.userID, !.topic = r.in.topic,
                  !.latex_content = r.loc.latexBody, !.sources = r.loc.sources,
                  !.model_used = r.loc.model, !.search_queries = r.loc.queries,
                  !.pdf_object_key = r.loc.pdfKey, !.tex_object_key = r.loc.texKey]

\* A save that takes the uploaded artifacts back when the insert fails.
CreateInsertCleaning(s, ok) ==
    /\ req[s].pc = "insert"
    /\ LET r == req[s]
           doc == DocumentOf(r)
           i == MongoInsert(docs, doc, OidHex(nextOid + 1), now, CtxOk(r, ok))
           called == Logged(r, "insert", <<doc>>, CtxOk(r, ok))
       IN /\ docs' = i.docs
          /\ nextOid' = IF i.err = "" THEN nextOid + 1 ELSE nextOid
          /\ IF i.err # ""
             THEN /\ req' = [req EXCEPT ![s] =
                                Respond([Printf(called, "mongo insert error")
                                           EXCEPT !.loc.failed = "insert"],
                                        StatusInternalServerError,
                                        ErrorBody("failed to save research"))]
                  /\ objects' = [k \in DOMAIN objects \ {r.loc.pdfKey, r.loc.texKey} |-> objects[k]]
             ELSE /\ req' = [req EXCEPT ![s] = [called EXCEPT !.pc = "reread", !.loc.docID = i.id]]
                  /\ objects' = objects
    /\ UNCHANGED authVars

\* Step 7: save to MongoDB.
CreateInsert(s, ok) ==
    /\ req[s].pc = "insert"
    /\ LET r == req[s]
           doc == DocumentOf(r)
           i == MongoInsert(docs, doc, OidHex(nextOid + 1), now, CtxOk(r, ok))
           called == Logged(r, "insert", <<doc>>, CtxOk(r, ok))
       IN /\ docs' = i.docs
          /\ nextOid' = IF i.err = "" THEN nextOid + 1 ELSE nextOid
          /\ IF i.err # ""
             THEN req' = [req EXCEPT ![s] =
                             Respond([Printf(called, "mongo insert error") EXCEPT !.loc.failed = "insert"],
                                     StatusInternalServerError,
                                     ErrorBody("failed to save research"))]
             ELSE req' = [req EXCEPT ![s] = [called EXCEPT !.pc = "reread", !.loc.docID = i.id]]
    /\ UNCHANGED <<authVars, objects>>

\* json.Encoder on a *models.Document: null for a nil pointer.
DocJSON(found, doc) == IF found THEN <<"doc", doc>> ELSE <<"null">>

\* The re-fetch, whose error is dropped, and the 201 response.
CreateReread(s, ok) ==
    /\ req[s].pc = "reread"
    /\ LET r == req[s]
           g == MongoGetByID(docs, r.loc.docID, CtxOk(r, ok))
           called == Logged(r, "get-by-id", <<r.loc.docID>>, CtxOk(r, ok))
       IN req' = [req EXCEPT ![s] = Respond(called, StatusCreated, DocJSON(g.found, g.doc))]
    /\ UNCHANGED <<authVars, storeVars>>

-----------------------------------------------------------------------------
(* Handler.Delete *)

\* A lookup whose error is dropped.
DeleteLookupUnchecked(s, ok) ==
    /\ req[s].pc = "handler"
    /\ req[s].route = DeleteRoute
    /\ LET r == req[s]
           g == MongoGetByID(docs, r.in.id, ok)
           called == Logged(r, "get-by-id", <<r.in.id>>, ok)
       IN req' = [req EXCEPT ![s] = [called EXCEPT !.pc = "remove-pdf", !.loc = g.doc]]
    /\ UNCHANGED <<authVars, storeVars>>

\* The lookup of the record.
DeleteLookup(s, ok) ==
    /\ req[s].pc = "handler"
    /\ req[s].route = DeleteRoute
    /\ LET r == req[s]
           g == MongoGetByID(docs, r.in.id, ok)
           called == Logged(r, "get-by-id", <<r.in.id>>, ok)
       IN IF g.err # ""
          THEN req' = [req EXCEPT ![s] = Respond(called, StatusNotFound, ErrorBody("not found"))]
          ELSE req' = [req EXCEPT ![s] = [called EXCEPT !.pc = "remove-pdf", !.loc = g.doc]]
    /\ UNCHANGED <<authVars, storeVars>>

\* A clean-up that gives the deletion up when the PDF cannot be removed.
DeleteRemovePDFStrict(s, ok) ==
    /\ req[s].pc = "remove-pdf"
    /\ LET r == req[s]
           key == r.loc.pdf_object_key
       IN IF key # NoKey
          THEN /\ objects' = MinioRemove(objects, key, ok).objects
               /\ req' = [req EXCEPT ![s] =
                             IF ok
                             THEN [Logged(r, "remove", <<key>>, ok) EXCEPT !.pc = "remove-tex"]
                             ELSE Respond(Logged(r, "remove", <<key>>, ok),
                                          StatusInternalServerError, ErrorBody("delete failed"))]
          ELSE /\ objects' = objects
               /\ req' = [req EXCEPT ![s] = [r EXCEPT !.pc = "remove-tex"]]
    /\ UNCHANGED <<authVars, docs, nextOid>>

\* Clean up MinIO: the PDF, when the record names one; the error is dropped.
DeleteRemovePDF(s, ok) ==
    /\ req[s].pc = "remove-pdf"
    /\ LET r == req[s]
           key == r.loc.pdf_object_key
       IN IF key # NoKey
          THEN /\ objects' = MinioRemove(objects, key, ok).objects
               /\ req' = [req EXCEPT ![s] =
                             [Logged(r, "remove", <<key>>, ok) EXCEPT !.pc = "remove-tex"]]
          ELSE /\ objects' = objects
               /\ req' = [req EXCEPT ![s] = [r EXCEPT !.pc = "remove-tex"]]
    /\ UNCHANGED <<authVars, docs, nextOid>>

\* A clean-up that leaves the .tex where it is.
DeleteRemoveTexSkipped(s, ok) ==
    /\ req[s].pc = "remove-tex"
    /\ objects' = objects
    /\ req' = [req EXCEPT ![s].pc = "delete"]
    /\ UNCHANGED <<authVars, docs, nextOid>>

\* Clean up MinIO: the .tex, when the record names one; the error is dropped.
DeleteRemoveTex(s, ok) ==
    /\ req[s].pc = "remove-tex"
    /\ LET r == req[s]
           key == r.loc.tex_object_key
       IN IF key # NoKey
          THEN /\ objects' = MinioRemove(objects, key, ok).objects
               /\ req' = [req EXCEPT ![s] =
                             [Logged(r, "remove", <<key>>, ok) EXCEPT !.pc = "delete"]]
          ELSE /\ objects' = objects
               /\ req' = [req EXCEPT ![s] = [r EXCEPT !.pc = "delete"]]
    /\ UNCHANGED <<authVars, docs, nextOid>>

\* The record is deleted.
DeleteRecord(s, ok) ==
    /\ req[s].pc = "delete"
    /\ LET r == req[s]
           d == MongoDelete(docs, r.in.id, ok)
           called == Logged(r, "delete", <<r.in.id>>, ok)
       IN /\ docs' = d.docs
          /\ IF d.err # ""
             THEN req' = [req EXCEPT ![s] =
                             Respond(called, StatusInternalServerError, ErrorBody("delete failed"))]
             ELSE req' = [req EXCEPT ![s] = Respond(called, StatusOK, <<"message", "deleted">>)]
    /\ UNCHANGED <<authVars, nextOid, objects>>

-----------------------------------------------------------------------------
(* Handler.Get, Handler.List and the downloads. *)

\* Handler.Get
Get(s, ok) ==
    /\ req[s].pc = "handler"
    /\ req[s].route = GetRoute
    /\ LET r == req[s]
           g == MongoGetByID(docs, r.in.id, ok)
           called == Logged(r, "get-by-id", <<r.in.id>>, ok)
       IN IF g.err # ""
          THEN req' = [req EXCEPT ![s] = Respond(called, StatusNotFound, ErrorBody("not found"))]
          ELSE req' = [req EXCEPT ![s] = Respond(called, StatusOK, DocJSON(TRUE, g.doc))]
    /\ UNCHANGED <<authVars, storeVars>>

\* A Find without the user_id filter.
ListOrdersOfAll(d, userID) ==
    LET ids == DOMAIN d
        n == Cardinality(ids)
    IN {o \in [1..n -> ids] :
          /\ \A i, j \in 1..n : i # j => o[i] # o[j]
          /\ \A i, j \in 1..n : i < j => d[o[i]].created_at >= d[o[j]].created_at}

\* The orders in which Find with sort {created_at: -1} may return the
\* documents of a user: newest first, documents of one instant in any order.
ListOrders(d, userID) ==
    LET ids == {k \in DOMAIN d : d[k].user_id = userID}
        n == Cardinality(ids)
    IN {o \in [1..n -> ids] :
          /\ \A i, j \in 1..n : i # j => o[i] # o[j]
          /\ \A i, j \in 1..n : i < j => d[o[i]].created_at >= d[o[j]].created_at}

\* Handler.List; order is the order the store returned.
List(s, ok, order) ==
    /\ req[s].pc = "handler"
    /\ req[s].route = ListRoute
    /\ order \in ListOrders(docs, req[s].userID)
    /\ LET r == req[s]
           called == Logged(r, "list-by-user", <<r.userID>>, ok)
       IN IF ~ok
          THEN req' = [req EXCEPT ![s] =
                          Respond(called, StatusInternalServerError, ErrorBody("database error"))]
          ELSE req' = [req EXCEPT ![s] =
                          Respond(called, StatusOK,
                                  <<"docs", [i \in 1..Len(order) |-> docs[order[i]]]>>)]
    /\ UNCHANGED <<authVars, storeVars>>

\* A lookup that goes on to the Artifact Store whatever the key is.
DownloadLookupAnyKey(s, ok) ==
    /\ req[s].pc = "handler"
    /\ req[s].route \in {PDFRoute, TexRoute}
    /\ LET r == req[s]
           g == MongoGetByID(docs, r.in.id, ok)
           called == Logged(r, "get-by-id", <<r.in.id>>, ok)
       IN IF g.err # ""
          THEN req' = [req EXCEPT ![s] =
                          Respond(called, StatusNotFound,
                                  ErrorBody(IF r.route = PDFRoute THEN "pdf not available"
                                            ELSE "tex not available"))]
          ELSE req' = [req EXCEPT ![s] = [called EXCEPT !.pc = "download", !.loc = g.doc]]
    /\ UNCHANGED <<authVars, storeVars>>

\* DownloadPDF and DownloadTex: the lookup of the record and of its key.
DownloadLookup(s, ok) ==
    /\ req[s].pc = "handler"
    /\ req[s].route \in {PDFRoute, TexRoute}
    /\ LET r == req[s]
           g == MongoGetByID(docs, r.in.id, ok)
           key == IF r.route = PDFRoute THEN g.doc.pdf_object_key ELSE g.doc.tex_object_key
           called == Logged(r, "get-by-id", <<r.in.id>>, ok)
       IN IF g.err # "" \/ key = NoKey
          THEN req' = [req EXCEPT ![s] =
                          Respond(called, StatusNotFound,
                                  ErrorBody(IF r.route = PDFRoute THEN "pdf not available"
                                            ELSE "tex not available"))]
          ELSE req' = [req EXCEPT ![s] = [called EXCEPT !.pc = "download", !.loc = g.doc]]
    /\ UNCHANGED <<authVars, storeVars>>

\* DownloadPDF and DownloadTex: the object is fetched and streamed.
DownloadFetch(s, ok) ==
    /\ req[s].pc = "download"
    /\ LET r == req[s]
           key == IF r.route = PDFRoute THEN r.loc.pdf_object_key ELSE r.loc.tex_object_key
           g == MinioDownload(objects, key, ok)
           called == Logged(r, "download", <<key>>, ok)
       IN IF g.err # ""
          THEN req' = [req EXCEPT ![s] =
                          Respond(called, StatusInternalServerError, ErrorBody("download failed"))]
          ELSE req' = [req EXCEPT ![s] =
                          Respond(called, StatusOK,
                                  <<"file", g.data,
                                    IF r.route = PDFRoute THEN g.contentType
                                    ELSE "application/x-tex">>)]
    /\ UNCHANGED <<authVars, storeVars>>

-----------------------------------------------------------------------------
(* The state after main has wired the stores, clients and routes. *)

Empty == [k \in {} |-> 0]

Init ==
    /\ users = {}
    /\ nextUid = 0
    /\ rdb = Empty
    /\ nextSid = 0
    /\ now = 0
    /\ issued = Empty
    /\ revoked = {}
    /\ docs = Empty
    /\ nextOid = 0
    /\ objects = Empty
    /\ req = [s \in Slots |-> Idle]

\* A request meets at most one infrastructure fault.
Faults == {"none", "db", "redis"}
DbOk(f) == f # "db"
Up(f) == f # "redis"

(* The session layer: registration, login, logout, the protected /me and the *)
(* clock, on one connection.                                                 *)

RegisterInputs == {<<"alice", "a@x", "pw1", "none">>, <<"bob", "b@x", "pw2", "none">>,
                   <<"", "a@x", "pw1", "none">>, <<"bob", "b@x", "pw2", "db">>}
LoginInputs == {<<"a@x", "pw1">>, <<"a@x", "pw2">>, <<"b@x", "pw2">>, <<"z@x", "pw1">>}

NextAuth ==
    \/ \E i \in RegisterInputs : Register(1, i[1], i[2], i[3], DbOk(i[4]))
    \/ \E i \in LoginInputs, f \in Faults : Login(1, i[1], i[2], DbOk(f), Up(f))
    \/ \E c \in ClientCookies, f \in {"none", "redis"} : Logout(1, c, Up(f))
    \/ \E c \in ClientCookies, f \in {"none", "redis"} : Begin(1, MeRoute, c, Up(f), <<>>)
    \/ \E dbOk \in BOOLEAN : Me(1, dbOk)
    \/ Close(1)
    \/ Tick

SpecAuth == Init /\ [][NextAuth]_vars

(* SpecLogin: two connections; alice and bob have registered and nobody   *)
(* has logged in yet; logins with known and unknown emails, right and      *)
(* wrong passwords, meet or do not meet a fault.                           *)

InitRegistered ==
    /\ users = {[id |-> Uuid(1), username |-> "alice", email |-> "a@x",
                 password |-> GenerateFromPassword("pw1", 1), created_at |-> 0],
                [id |-> Uuid(2), username |-> "bob", email |-> "b@x",
                 password |-> GenerateFromPassword("pw2", 2), created_at |-> 0]}
    /\ nextUid = 2
    /\ rdb = Empty
    /\ nextSid = 0
    /\ now = 0
    /\ issued = Empty
    /\ revoked = {}
    /\ docs = Empty
    /\ nextOid = 0
    /\ objects = Empty
    /\ req = [s \in Slots |-> Idle]

\* The session layer reaches the state InitRegistered (checked under SpecAuth).
RegisteredReached ==
    /\ Cardinality(users) = 2
    /\ \E u \in users : u.email = "a@x" /\ u.id = Uuid(1)
    /\ \E u \in users : u.email = "b@x" /\ u.id = Uuid(2)
    /\ rdb = Empty
    /\ nextSid = 0
    /\ now = 0
    /\ req[1] = Idle

NextLogin ==
    \E s \in Slots :
        \/ \E i \in LoginInputs, f \in Faults : Login(s, i[1], i[2], DbOk(f), Up(f))
        \/ Close(s)

SpecLogin == InitRegistered /\ [][NextLogin]_vars

-----------------------------------------------------------------------------
(* The research routes.  These specifications start in the state the        *)
(* session layer reaches once alice and bob have registered and logged in:  *)
(* two users, each with a live session.                                     *)

Alice == [id |-> Uuid(1), username |-> "alice", email |-> "a@x",
          password |-> GenerateFromPassword("pw1", 1), created_at |-> 0]
Bob == [id |-> Uuid(2), username |-> "bob", email |-> "b@x",
        password |-> GenerateFromPassword("pw2", 2), created_at |-> 0]

InitLoggedIn ==
    /\ users = {Alice, Bob}
    /\ nextUid = 2
    /\ rdb = (Sid(1) :> [val |-> Alice.id, exp |-> SessionTTL]) @@
             (Sid(2) :> [val |-> Bob.id, exp |-> SessionTTL])
    /\ nextSid = 2
    /\ now = 0
    /\ issued = (Sid(1) :> [user |-> Alice.id, at |-> 0]) @@
                (Sid(2) :> [user |-> Bob.id, at |-> 0])
    /\ revoked = {}
    /\ docs = Empty
    /\ nextOid = 0
    /\ objects = Empty
    /\ req = [s \in Slots |-> Idle]

\* The session layer reaches the state InitLoggedIn (checked under SpecAuth).
LoggedInReached ==
    /\ users = {Alice, Bob}
    /\ DOMAIN rdb = {Sid(1), Sid(2)}
    /\ rdb[Sid(1)] = [val |-> Alice.id, exp |-> SessionTTL]
    /\ rdb[Sid(2)] = [val |-> Bob.id, exp |-> SessionTTL]
    /\ now = 0
    /\ req[1] = Idle

MaxPlanned == 7

\* The planner's answer of n queries; the order is not the sorted one.
Planned(n) == [i \in 1..n |-> "q" \o ToString((i * 3) % (MaxPlanned + 1))]

Ok(v) == [kind |-> "ok", value |-> v]
Failures == {[kind |-> "transport"], [kind |-> "status", code |-> 500], [kind |-> "decode"]}
Source1 == [title |-> "t1", body |-> "b1", href |-> "h1"]
Source2 == [title |-> "t2", body |-> "b2", href |-> "h2"]

ShortTopic == <<7, 8>>
LongTopic == [i \in 1..(SlugLen + 1) |-> IF i > SlugLen THEN 1 ELSE 5]

CreateIn(bodyOk, topic, model, depth, apiKey) ==
    [bodyOk |-> bodyOk, topic |-> topic, model |-> model, depth |-> depth, api_key |-> apiKey]

\* The compile, upload and store steps of a run in which nothing fails.
SmoothTail(s) ==
    \/ CreateCompilePDF(s, Ok("PDF"))
    \/ CreateCompileTex(s, Ok("TEX"))
    \/ CreateUploadPDF(s, TRUE)
    \/ CreateUploadTex(s, TRUE)
    \/ CreateInsert(s, TRUE)
    \/ CreateReread(s, TRUE)

(* SpecFatal: one connection; planning, search and drafting fail in every  *)
(* way or succeed; the later steps do not fail.                            *)

FatalInputs == {CreateIn(TRUE, ShortTopic, "", "Quick", "k"),
                CreateIn(TRUE, LongTopic, "m", "", "k"),
                CreateIn(FALSE, <<>>, "", "", ""),
                CreateIn(TRUE, <<>>, "m", "Quick", "k"),
                CreateIn(TRUE, ShortTopic, "m", "Quick", "")}

NextFatal ==
    \/ \E c \in {NoCookie, Cookie(Sid(1))}, in \in FatalInputs :
          Begin(1, CreateRoute, c, TRUE, in)
    \/ \E o \in Failures \cup {Ok(Planned(3))} : CreatePlan(1, o)
    \/ \E o \in Failures \cup {Ok(<<>>), Ok(<<Source1, Source2>>)} : CreateSearch(1, o)
    \/ \E o \in Failures \cup {Ok(""), Ok("BODY")} : CreateReport(1, o)
    \/ SmoothTail(1)
    \/ Close(1)

SpecFatal == InitLoggedIn /\ [][NextFatal]_vars

(* SpecDegraded: one connection; planning, search and drafting succeed;   *)
(* the compilations, the uploads, the insert and the re-read fail or not.  *)

PdfOutcomes == {[kind |-> "transport"], [kind |-> "status", code |-> 500],
                [kind |-> "read", value |-> "PD"], Ok("PDF")}
TexOutcomes == {[kind |-> "status", code |-> 500], [kind |-> "decode"], Ok(""), Ok("TEX")}

NextDegraded ==
    \/ Begin(1, CreateRoute, Cookie(Sid(1)), TRUE, CreateIn(TRUE, ShortTopic, "m", "Quick", "k"))
    \/ CreatePlan(1, Ok(Planned(1)))
    \/ CreateSearch(1, Ok(<<Source1>>))
    \/ CreateReport(1, Ok("BODY"))
    \/ \E o \in PdfOutcomes : CreateCompilePDF(1, o)
    \/ \E o \in TexOutcomes : CreateCompileTex(1, o)
    \/ \E ok \in BOOLEAN : CreateUploadPDF(1, ok)
    \/ \E ok \in BOOLEAN : CreateUploadTex(1, ok)
    \/ \E ok \in BOOLEAN : CreateInsert(1, ok)
    \/ \E ok \in BOOLEAN : CreateReread(1, ok)
    \/ Close(1)

SpecDegraded == InitLoggedIn /\ [][NextDegraded]_vars

(* SpecDepth: one connection; every depth, planner answers of several      *)
(* lengths; nothing fails.                                                 *)

Depths == {"", "Quick", "Standard", "Deep", "Turbo", "quick"}
PlannedLengths == {0, 3, 5, MaxPlanned}

NextDepth ==
    \/ \E d \in Depths : Begin(1, CreateRoute, Cookie(Sid(1)), TRUE,
                               CreateIn(TRUE, ShortTopic, "", d, "k"))
    \/ \E n \in PlannedLengths : CreatePlan(1, Ok(Planned(n)))
    \/ CreateSearch(1, Ok(<<Source1>>))
    \/ CreateReport(1, Ok("BODY"))
    \/ SmoothTail(1)
    \/ Close(1)

SpecDepth == InitLoggedIn /\ [][NextDepth]_vars

\* The ids a client may name: those of the stored records, the id of no
\* record, and a string that is no ObjectID.
ClientIds == DOMAIN docs \cup {OidHex(0), "zz"}

IdIn(id) == [id |-> id]

(* SpecDelete: one connection; runs in which nothing fails, and deletions  *)
(* in which the Artifact Store and the Result Store fail or not.           *)

NextDelete ==
    \/ Begin(1, CreateRoute, Cookie(Sid(1)), TRUE, CreateIn(TRUE, ShortTopic, "m", "Quick", "k"))
    \/ CreatePlan(1, Ok(Planned(1)))
    \/ CreateSearch(1, Ok(<<Source1>>))
    \/ CreateReport(1, Ok("BODY"))
    \/ \E o \in {[kind |-> "transport"], Ok("PDF")} : CreateCompilePDF(1, o)
    \/ \E o \in {[kind |-> "decode"], Ok("TEX")} : CreateCompileTex(1, o)
    \/ CreateUploadPDF(1, TRUE)
    \/ CreateUploadTex(1, TRUE)
    \/ CreateInsert(1, TRUE)
    \/ CreateReread(1, TRUE)
    \/ \E id \in ClientIds : Begin(1, DeleteRoute, Cookie(Sid(1)), TRUE, IdIn(id))
    \/ \E ok \in BOOLEAN : DeleteLookup(1, ok)
    \/ \E ok \in BOOLEAN : DeleteRemovePDF(1, ok)
    \/ \E ok \in BOOLEAN : DeleteRemoveTex(1, ok)
    \/ \E ok \in BOOLEAN : DeleteRecord(1, ok)
    \/ Close(1)

SpecDelete == InitLoggedIn /\ [][NextDelete]_vars

(* SpecDownload: one connection; runs whose compilations fail or not, and *)
(* downloads in which the Result Store and the Artifact Store fail or not. *)

NextDownload ==
    \/ Begin(1, CreateRoute, Cookie(Sid(1)), TRUE, CreateIn(TRUE, ShortTopic, "m", "Quick", "k"))
    \/ CreatePlan(1, Ok(Planned(1)))
    \/ CreateSearch(1, Ok(<<Source1>>))
    \/ CreateReport(1, Ok("BODY"))
    \/ \E o \in {[kind |-> "transport"], Ok("PDF")} : CreateCompilePDF(1, o)
    \/ \E o \in {[kind |-> "decode"], Ok("TEX")} : CreateCompileTex(1, o)
    \/ \E ok \in BOOLEAN : CreateUploadPDF(1, ok)
    \/ \E ok \in BOOLEAN : CreateUploadTex(1, ok)
    \/ CreateInsert(1, TRUE)
    \/ CreateReread(1, TRUE)
    \/ \E route \in {PDFRoute, TexRoute}, id \in ClientIds :
          Begin(1, route, Cookie(Sid(1)), TRUE, IdIn(id))
    \/ \E ok \in BOOLEAN : DownloadLookup(1, ok)
    \/ \E ok \in BOOLEAN : DownloadFetch(1, ok)
    \/ Close(1)

SpecDownload == InitLoggedIn /\ [][NextDownload]_vars

(* SpecConc: two connections; runs and deletions of both users interleave; *)
(* no collaborator and no store fails.                                     *)

NextConc ==
    \E s \in Slots :
        \/ \E c \in {Cookie(Sid(1)), Cookie(Sid(2))} :
              Begin(s, CreateRoute, c, TRUE, CreateIn(TRUE, ShortTopic, "m", "Quick", "k"))
        \/ CreatePlan(s, Ok(Planned(1)))
        \/ CreateSearch(s, Ok(<<Source1>>))
        \/ CreateReport(s, Ok("BODY"))
        \/ SmoothTail(s)
        \/ \E id \in DOMAIN docs : Begin(s, DeleteRoute, Cookie(Sid(1)), TRUE, IdIn(id))
        \/ DeleteLookup(s, TRUE)
        \/ DeleteRemovePDF(s, TRUE)
        \/ DeleteRemoveTex(s, TRUE)
        \/ DeleteRecord(s, TRUE)
        \/ Close(s)

SpecConc == InitLoggedIn /\ [][NextConc]_vars

(* SpecRoutes: one connection; every protected route, with every cookie a *)
(* client can send, while sessions are revoked and expire; no handler      *)
(* fails.                                                                  *)

InFor(route) ==
    IF route = CreateRoute THEN {CreateIn(TRUE, ShortTopic, "m", "Quick", "k")}
    ELSE IF route \in {GetRoute, DeleteRoute, PDFRoute, TexRoute} THEN {IdIn(id) : id \in ClientIds}
    ELSE {<<>>}

NextRoutes ==
    \/ \E route \in ProtectedRoutes, c \in ClientCookies, up \in BOOLEAN :
          \E in \in InFor(route) : Begin(1, route, c, up, in)
    \/ Me(1, TRUE)
    \/ CreatePlan(1, Ok(Planned(1)))
    \/ CreateSearch(1, Ok(<<Source1>>))
    \/ CreateReport(1, Ok("BODY"))
    \/ SmoothTail(1)
    \/ Get(1, TRUE)
    \/ \E order \in ListOrders(docs, req[1].userID) : List(1, TRUE, order)
    \/ DownloadLookup(1, TRUE)
    \/ DownloadFetch(1, TRUE)
    \/ DeleteLookup(1, TRUE)
    \/ DeleteRemovePDF(1, TRUE)
    \/ DeleteRemoveTex(1, TRUE)
    \/ DeleteRecord(1, TRUE)
    \/ Logout(1, Cookie(Sid(1)), TRUE)
    \/ Tick
    \/ Close(1)

SpecRoutes == InitLoggedIn /\ [][NextRoutes]_vars

-----------------------------------------------------------------------------
(* Properties of the session layer, checked under SpecAuth. *)

\* C2: a token issued by a successful login resolves (SessionStore.Get, the
\* store answering) to the user who logged in for as long as it has not been
\* revoked and fewer than 24h have passed since it was issued, and to nothing
\* from then on, however often it was used in between.
C2_TokenLifetime ==
    \A sid \in DOMAIN issued :
        SessionGet(rdb, sid, now, TRUE).val =
            IF sid \notin revoked /\ now < issued[sid].at + 24
            THEN issued[sid].user
            ELSE ""

\* A token that was never revoked is presented 24h after its login and is
\* turned away.
C2_Witness ==
    \E sid \in DOMAIN issued :
        /\ sid \notin revoked
        /\ now >= issued[sid].at + 24
        /\ req[1].route = MeRoute
        /\ req[1].cookie = Cookie(sid)
        /\ req[1].status = StatusUnauthorized

\* The login on connection s named an existing user and another password
\* than the one that user registered.
WrongPasswordLogin(r) ==
    /\ r.route = LoginRoute
    /\ r.pc = "done"
    /\ \E u \in users : u.email = r.in.email /\ u.password[3] # r.in.password

\* C10: a login with the email of an existing user and a password that does
\* not match is answered 401 "invalid credentials", creates no credential and
\* sets no cookie.
C10_WrongPassword ==
    [][\A s \in Slots :
          (req[s].pc = "idle" /\ WrongPasswordLogin(req'[s]))
          => /\ req'[s].status = StatusUnauthorized
             /\ req'[s].body = ErrorBody("invalid credentials")
             /\ ~req'[s].setCookie.set
             /\ rdb' = rdb
             /\ nextSid' = nextSid]_vars

\* Such a login has been answered.
C10_Witness ==
    /\ WrongPasswordLogin(req[1])
    /\ req[1].status = StatusUnauthorized

-----------------------------------------------------------------------------
(* Properties of the pipeline's fatal stages, checked under SpecFatal. *)

Last(q) == q[Len(q)]

\* The step on connection s made one more call, and it was this call.
Called(s, calls) ==
    /\ req[s].route = CreateRoute
    /\ req'[s].route = CreateRoute
    /\ Len(req'[s].log) = Len(req[s].log) + 1
    /\ Last(req'[s].log).call \in calls

\* C4: when the planning, search or drafting call fails (no response, a
\* non-2xx status or a response that does not decode), the run answers 502
\* with an error message and stops there: that step and the run's end leave
\* the Artifact Store and the Result Store as they were.
C4_FatalStageAborts ==
    [][\A s \in Slots :
          (/\ Called(s, {"generate-queries", "search", "generate-report"})
           /\ Last(req'[s].log).out.kind # "ok")
          => /\ req'[s].pc = "done"
             /\ req'[s].status = StatusBadGateway
             /\ req'[s].body[1] = "error"
             /\ \A i \in 1..Len(req'[s].log) :
                   req'[s].log[i].call \notin {"compile-pdf", "compile-tex", "upload", "insert"}
             /\ docs' = docs
             /\ objects' = objects]_vars

\* A run has ended on a failed drafting call, after planning and search.
C4_Witness ==
    /\ req[1].pc = "done"
    /\ Len(req[1].log) = 3
    /\ req[1].log[3].call = "generate-report"
    /\ req[1].log[3].out.kind = "decode"
    /\ req[1].status = StatusBadGateway

\* The body is one with which a run answers a drafting call that returned an
\* error.
DraftingErrorBody(body) ==
    \E o \in Failures : body = ErrorWith("Report generation failed: ", GenerateReport(o).err)

\* C5: when drafting returns successfully with an empty body, the run ends
\* with an error whose message is none of those of a failed drafting call,
\* calls neither compilation nor the Artifact Store, and adds no record.
C5_EmptyDraft ==
    [][\A s \in Slots :
          (/\ Called(s, {"generate-report"})
           /\ Last(req'[s].log).out = Ok(""))
          => /\ req'[s].pc = "done"
             /\ req'[s].status = StatusBadGateway
             /\ req'[s].body[1] = "error"
             /\ ~DraftingErrorBody(req'[s].body)
             /\ docs' = docs
             /\ nextOid' = nextOid
             /\ objects' = objects]_vars

\* A run has ended on an empty draft.
C5_Witness ==
    /\ req[1].pc = "done"
    /\ req[1].route = CreateRoute
    /\ Len(req[1].log) = 3
    /\ req[1].log[3].out = Ok("")
    /\ req[1].status = StatusBadGateway

-----------------------------------------------------------------------------
(* Properties of the middleware, checked under SpecRoutes. *)

\* C3: on every protected route the middleware answers 401 and calls no
\* handler when the request has no cookie or the Credential Store gave no
\* subject for it (nothing live, or no answer); a handler that runs has the
\* subject the store gave, which is the user whose login issued the token,
\* as its user_id, and /me answers with that user.
C3_MiddlewareGate ==
    \A s \in Slots :
        LET r == req[s]
        IN r.route \in ProtectedRoutes =>
              /\ (~r.cookie.present \/ r.resolved = "") =>
                    /\ r.pc = "done"
                    /\ r.status = StatusUnauthorized
                    /\ ~r.ran
                    /\ r.log = <<>>
              /\ r.ran =>
                    /\ r.cookie.present
                    /\ r.resolved # ""
                    /\ r.userID = r.resolved
                    /\ r.cookie.value \in DOMAIN issued
                    /\ r.userID = issued[r.cookie.value].user
              /\ (r.route = MeRoute /\ r.status = StatusOK) => r.body[2].id = r.resolved

\* A request with a cookie that resolves to nothing has been turned away on a
\* research route.
C3_Witness ==
    /\ req[1].route = DeleteRoute
    /\ req[1].cookie.present
    /\ req[1].resolved = ""
    /\ req[1].status = StatusUnauthorized

-----------------------------------------------------------------------------
(* Properties of the compilations, checked under SpecDegraded. *)

\* The run's call of this name has been made and returned an error.
CallFailed(r, call) ==
    \E i \in 1..Len(r.log) : r.log[i].call = call /\ r.log[i].out.kind # "ok"

\* C6: in a run whose drafting succeeded and whose PDF compilation failed,
\* the record the run stored has an empty pdf_object_key, and the run, the
\* Result Store answering, returns 201 with that record and its non-empty
\* latex_content.
C6_PdfFailureLeavesKeyEmpty ==
    \A s \in Slots :
        LET r == req[s]
        IN (/\ r.route = CreateRoute
            /\ r.pc \in {"reread", "done"}
            /\ CallFailed(r, "compile-pdf")
            /\ r.loc.docID # "")
           => /\ docs[r.loc.docID].pdf_object_key = NoKey
              /\ (r.pc = "done" /\ Last(r.log).out)
                    => /\ r.status = StatusCreated
                       /\ r.body[1] = "doc"
                       /\ r.body[2].latex_content # ""
                       /\ r.body[2].pdf_object_key = NoKey

-----------------------------------------------------------------------------
(* Properties of the deletion, checked under SpecDelete. *)

\* A removal from the Artifact Store failed during the deletion.
RemovalFailed(r) ==
    \E i \in 1..Len(r.log) : r.log[i].call = "remove" /\ ~r.log[i].out

\* C7: a deletion of an existing record in which a removal from the Artifact
\* Store failed goes on to delete the record: once it has returned, the
\* Result Store having done the delete, the record is gone.
C7_RemovalFailureStillDeletes ==
    \A s \in Slots :
        LET r == req[s]
        IN (r.route = DeleteRoute /\ r.pc = "done" /\ RemovalFailed(r))
           => /\ Last(r.log).call = "delete"
              /\ Last(r.log).out
                    => /\ r.status = StatusOK
                       /\ r.in.id \notin DOMAIN docs

\* A deletion whose removals both failed has returned.
C7_Witness ==
    /\ req[1].route = DeleteRoute
    /\ req[1].pc = "done"
    /\ Len(req[1].log) = 4
    /\ ~req[1].log[2].out
    /\ ~req[1].log[3].out
    /\ req[1].status = StatusOK
    /\ req[1].in.id \notin DOMAIN docs

-----------------------------------------------------------------------------
(* Properties of the stores, checked under SpecConc. *)

\* A deletion of the record is between its lookup and its end.
UnderDeletion(id) ==
    \E s \in Slots :
        /\ req[s].route = DeleteRoute
        /\ req[s].pc \in {"remove-pdf", "remove-tex", "delete"}
        /\ req[s].in.id = id

KeyHolds(key) == key = NoKey \/ key \in DOMAIN objects

\* C1: every record of the Result Store has a pdf_object_key and a
\* tex_object_key that are empty or name an object of the Artifact Store;
\* stated for the records no deletion is at work on.
C1_NoDanglingKey ==
    \A id \in DOMAIN docs :
        ~UnderDeletion(id) =>
            /\ KeyHolds(docs[id].pdf_object_key)
            /\ KeyHolds(docs[id].tex_object_key)

-----------------------------------------------------------------------------
(* Properties of the depth, checked under SpecDepth. *)

Min(a, b) == IF a < b THEN a ELSE b

\* The first n entries of q, in order.
FirstN(q, n) == [i \in 1..Min(n, Len(q)) |-> q[i]]

\* The run has called search: log[1] is the planner call, log[2] the search.
Searched(r) == r.route = CreateRoute /\ Len(r.log) >= 2

\* C8: a run whose depth is none of Quick, Standard and Deep is not rejected
\* and does what a Standard run does: search is called with the first 4 of
\* the planned queries and 5 results per query, and the run ends 201 with a
\* record holding those queries.
C8_UnknownDepthIsStandard ==
    \A s \in Slots :
        LET r == req[s]
        IN (r.route = CreateRoute /\ r.ran /\ r.in.depth \notin {"Quick", "Standard", "Deep"})
           => /\ r.status # StatusBadRequest
              /\ Searched(r) =>
                    /\ r.log[2].call = "search"
                    /\ r.log[2].args = <<FirstN(r.log[1].out.value, 4), 5>>
              /\ r.pc = "done" =>
                    /\ r.status = StatusCreated
                    /\ r.body[2].search_queries = FirstN(r.log[1].out.value, 4)

\* A run with an unknown depth and more than 4 planned queries has ended.
C8_Witness ==
    /\ req[1].route = CreateRoute
    /\ req[1].pc = "done"
    /\ req[1].in.depth = "Turbo"
    /\ Len(req[1].log[1].out.value) > 4
    /\ req[1].status = StatusCreated

\* The counts the depths stand for.
QueryCount(depth) ==
    CASE depth = "Quick" -> 2 [] depth = "Deep" -> 6 [] OTHER -> 4
ResultsPerQuery(depth) ==
    CASE depth = "Quick" -> 3 [] depth = "Deep" -> 7 [] OTHER -> 5

\* C9: the queries passed to search and stored in the record are the first
\* min(query_count, n) of the n planned queries, in the planner's order, and
\* search is called with the results_per_query of the same depth.
C9_TruncationKeepsOrder ==
    \A s \in Slots :
        LET r == req[s]
            planned == r.log[1].out.value
        IN Searched(r) =>
              /\ r.log[2].call = "search"
              /\ r.log[2].args[1] = FirstN(planned, QueryCount(r.in.depth))
              /\ Len(r.log[2].args[1]) = Min(QueryCount(r.in.depth), Len(planned))
              /\ r.log[2].args[2] = ResultsPerQuery(r.in.depth)
              /\ r.pc = "done" => r.body[2].search_queries = r.log[2].args[1]
              /\ r.loc.docID # "" => docs[r.loc.docID].search_queries = r.log[2].args[1]

\* A Quick run for which 5 queries were planned has stored 2.
C9_Witness ==
    /\ req[1].route = CreateRoute
    /\ req[1].pc = "done"
    /\ req[1].in.depth = "Quick"
    /\ Len(req[1].log[1].out.value) = 5
    /\ Len(req[1].body[2].search_queries) = 2

-----------------------------------------------------------------------------
(* Properties of failed logins, checked under SpecLogin. *)

\* The login named an email no user has.
UnknownEmailLogin(r) ==
    /\ r.route = LoginRoute
    /\ r.pc = "done"
    /\ \A u \in users : u.email # r.in.email

\* What the caller of a request sees: status, body and the cookie set.
Response(r) == <<r.status, r.body, r.setCookie>>

\* C11: a login with an unknown email and a login with a known email and a
\* wrong password get the same status, the same body and the same cookies
\* (none), and neither login changes the Credential Store.
C11_FailedLoginUniform ==
    [][/\ \A s \in Slots :
             (/\ req[s].pc = "idle"
              /\ UnknownEmailLogin(req'[s]) \/ WrongPasswordLogin(req'[s]))
             => /\ rdb' = rdb
                /\ nextSid' = nextSid
                /\ ~req'[s].setCookie.set
       /\ \A s, t \in Slots :
             (UnknownEmailLogin(req'[s]) /\ WrongPasswordLogin(req'[t]))
             => Response(req'[s]) = Response(req'[t])]_vars

\* The answers to a login of each kind are before the two callers.
C11_Witness ==
    /\ UnknownEmailLogin(req[1])
    /\ WrongPasswordLogin(req[2])
    /\ Response(req[1]) = Response(req[2])

-----------------------------------------------------------------------------
(* Properties of the downloads, checked under SpecDownload. *)

\* The request asks for an artifact of a stored record that has no key for it.
DownloadOfEmptyKey(r) ==
    /\ r.route \in {PDFRoute, TexRoute}
    /\ r.ran
    /\ r.in.id \in DOMAIN docs
    /\ (IF r.route = PDFRoute THEN docs[r.in.id].pdf_object_key
                              ELSE docs[r.in.id].tex_object_key) = NoKey

\* C12: a download of the PDF (of the .tex) of a record whose pdf_object_key
\* (tex_object_key) is empty is answered 404, never 500, and the Artifact
\* Store is not called.
C12_EmptyKeyIs404 ==
    \A s \in Slots :
        LET r == req[s]
        IN DownloadOfEmptyKey(r) =>
              /\ r.pc \in {"handler", "done"}
              /\ r.pc = "done" => r.status = StatusNotFound
              /\ \A i \in 1..Len(r.log) : r.log[i].call # "download"
              /\ r.status # StatusInternalServerError

\* The PDF of a record that has a .tex key and no PDF key was asked for, the
\* Result Store answered, and the request got its 404.
C12_Witness ==
    /\ DownloadOfEmptyKey(req[1])
    /\ req[1].route = PDFRoute
    /\ docs[req[1].in.id].tex_object_key # NoKey
    /\ req[1].pc = "done"
    /\ Last(req[1].log).out
    /\ req[1].status = StatusNotFound

-----------------------------------------------------------------------------
(* Properties of the Credential Store under use, checked under SpecRoutes. *)

\* C13: a request through the middleware, whatever its route and its cookie,
\* leaves the Credential Store as it was, and every token the store holds
\* expires 24h after the login that issued it, however often it was used.
C13_ResolveLeavesStore ==
    [][/\ \A s \in Slots :
             (req[s].pc = "idle" /\ req'[s].route \in ProtectedRoutes) => rdb' = rdb
       /\ \A sid \in DOMAIN rdb' :
             /\ sid \in DOMAIN issued'
             /\ rdb'[sid].exp = issued'[sid].at + 24
             /\ rdb'[sid].val = issued'[sid].user]_vars

\* A handler runs for a token presented 12h after its login, and the token
\* still expires 24h after that login.
C13_Witness ==
    /\ req[1].ran
    /\ req[1].route = ListRoute
    /\ req[1].cookie = Cookie(Sid(2))
    /\ now = TickStep
    /\ Sid(2) \in DOMAIN rdb
    /\ rdb[Sid(2)].exp = issued[Sid(2)].at + 24

-----------------------------------------------------------------------------
(* Properties of the rejected runs, checked under SpecFatal. *)

\* The body could not be decoded, or the topic or the api_key is empty.
InvalidCreate(r) ==
    /\ r.route = CreateRoute
    /\ ~r.in.bodyOk \/ r.in.topic = <<>> \/ r.in.api_key = ""

\* C14: a POST /research that fails authentication is answered 401 and one
\* that fails validation 400, and a run answered 401 or 400 has called no
\* collaborator and has written nothing to the Artifact Store or the Result
\* Store.
C14_RejectedBeforeAnyCall ==
    [][\A s \in Slots :
          LET r == req'[s]
          IN (r.route = CreateRoute /\ r.pc = "done" /\ req[s].pc # "done")
             => /\ ~r.ran => r.status = StatusUnauthorized
                /\ (r.ran /\ InvalidCreate(r)) => r.status = StatusBadRequest
                /\ r.status \in {StatusUnauthorized, StatusBadRequest}
                      => /\ r.log = <<>>
                         /\ docs' = docs
                         /\ objects' = objects
                         /\ nextOid' = nextOid]_vars

\* A run with a topic and no api_key has been answered 400.
C14_Witness ==
    /\ req[1].route = CreateRoute
    /\ req[1].ran
    /\ req[1].in.bodyOk
    /\ req[1].in.topic # <<>>
    /\ req[1].in.api_key = ""
    /\ req[1].status = StatusBadRequest
    /\ req[1].log = <<>>

-----------------------------------------------------------------------------
(* Properties of the logout, checked under SpecAuth. *)

\* C15: a logout request without a cookie, or with a cookie whose token was
\* never issued and so resolves to no subject, is answered 401 and the
\* logout handler does not run.
C15_LogoutProtected ==
    \A s \in Slots :
        LET r == req[s]
        IN (/\ r.route = LogoutRoute
            /\ r.pc = "done"
            /\ ~r.cookie.present \/ r.cookie.value \notin DOMAIN issued)
           => /\ r.status = StatusUnauthorized
              /\ ~r.ran


\* C16: once a logout request that carried a session cookie has returned, the
\* token of that cookie resolves to no subject when the Credential Store is
\* asked, and the logout response, with or without a cookie, clears the
\* session_id cookie.
C16_LogoutRevokes ==
    \A s \in Slots :
        LET r == req[s]
        IN (r.route = LogoutRoute /\ r.pc = "done")
           => /\ r.setCookie = LogoutCookie
              /\ r.cookie.present => SessionGet(rdb, r.cookie.value, now, TRUE).val = ""

-----------------------------------------------------------------------------
(* Properties of the resolve outcomes, checked under SpecRoutes. *)

\* The middleware turned the request away although the store holds a live
\* mapping for its token: the lookup did not answer.
StoreFaultSeen(r) ==
    /\ r.route \in ProtectedRoutes
    /\ r.cookie.present
    /\ ~r.ran
    /\ r.pc = "done"
    /\ Live(rdb, r.cookie.value, now)

\* What the middleware emits for a request: its response.  RequireAuth and
\* SessionStore.Get write no log line.
Report(a) == <<a.status, a.body>>

\* C17: a request turned away because the Credential Store did not answer is
\* treated as not authenticated (401), and what the session layer reports
\* for it differs from what it reports for a token the store has no mapping
\* for.
C17_StoreFaultReportedApart ==
    \A s \in Slots :
        LET r == req[s]
        IN StoreFaultSeen(r) =>
              /\ r.status = StatusUnauthorized
              /\ Report(r) # Report(RequireAuth(rdb, Cookie("forged"), now, TRUE))

-----------------------------------------------------------------------------
(* Properties of dead tokens, checked under SpecAuth. *)

\* The token's login lies 24h or more back and nobody revoked it.
Expired(sid) == sid \in DOMAIN issued /\ sid \notin revoked /\ now >= issued[sid].at + 24

\* The tokens that stand for nobody: one never issued, the expired ones and
\* the revoked ones.
DeadTokens == {"forged"} \cup {sid \in DOMAIN issued : Expired(sid)} \cup revoked

\* C18: the Credential Store gives the same answer, and the middleware the
\* same response, for a token that was never issued, one that has expired
\* and one that was revoked; a request turned away with a cookie gets that
\* response.
C18_DeadTokensAlike ==
    /\ \A a, b \in DeadTokens :
          /\ SessionGet(rdb, a, now, TRUE) = SessionGet(rdb, b, now, TRUE)
          /\ RequireAuth(rdb, Cookie(a), now, TRUE) = RequireAuth(rdb, Cookie(b), now, TRUE)
    /\ \A s \in Slots :
          LET r == req[s]
          IN (r.route \in ProtectedRoutes /\ r.cookie.present /\ ~r.ran)
             => Report(r) = Report(RequireAuth(rdb, Cookie("forged"), now, TRUE))

\* There are an expired token and a revoked one that has not run out, and the
\* revoked one has been turned away.
C18_Witness ==
    \E e, v \in DOMAIN issued :
        /\ Expired(e)
        /\ v \in revoked
        /\ now < issued[v].at + 24
        /\ req[1].route = MeRoute
        /\ req[1].cookie = Cookie(v)
        /\ req[1].status = StatusUnauthorized

-----------------------------------------------------------------------------
(* Properties of revoke, checked under SpecAuth. *)

\* The tokens a caller can name: one never issued and every one ever made.
Tokens == {"forged"} \cup {Sid(n) : n \in 1..nextSid}

\* C19: revoke takes the mapping of the named token out of the Credential
\* Store and leaves every other mapping, with its expiry, as it was, other
\* sessions of the same user included; revoking a token the store does not
\* hold changes nothing and is no error, and revoking twice gives what
\* revoking once gives.  A logout changes the store by at most that.
C19_RevokeExactlyOne ==
    [][/\ \A sid \in Tokens :
             LET once == SessionDelete(rdb', sid, TRUE)
             IN /\ DOMAIN once = DOMAIN rdb' \ {sid}
                /\ \A k \in DOMAIN once : once[k] = rdb'[k]
                /\ sid \notin DOMAIN rdb' => once = rdb'
                /\ SessionDelete(once, sid, TRUE) = once
       /\ \A s \in Slots :
             (req[s].pc = "idle" /\ req'[s].route = LogoutRoute)
             => /\ req'[s].status = StatusOK
                /\ \A k \in DOMAIN rdb :
                      (req'[s].cookie.present /\ k = req'[s].cookie.value)
                      \/ (k \in DOMAIN rdb' /\ rdb'[k] = rdb[k])
                /\ DOMAIN rdb' \subseteq DOMAIN rdb]_vars

\* A user with two sessions has logged out of one; the other is still held.
C19_Witness ==
    \E a, b \in DOMAIN issued :
        /\ a # b
        /\ issued[a].user = issued[b].user
        /\ req[1].route = LogoutRoute
        /\ req[1].cookie = Cookie(a)
        /\ a \notin DOMAIN rdb
        /\ b \in DOMAIN rdb
        /\ rdb[b].exp = issued[b].at + 24

-----------------------------------------------------------------------------
(* Properties of the run's answer, checked under SpecDegraded. *)

\* The run's call of the Result Store of this name failed.
StoreCallFailed(r, call) ==
    \E i \in 1..Len(r.log) : r.log[i].call = call /\ ~r.log[i].out

\* C20: a run answered 201 returns the record the Result Store holds under
\* the id the insert assigned, with that id and the stored created_at; a run
\* in which the insert or the read of the record failed is answered 500.
C20_CreatedIsStoredRecord ==
    \A s \in Slots :
        LET r == req[s]
        IN (r.route = CreateRoute /\ r.pc = "done")
           => /\ r.status = StatusCreated
                    => /\ r.body[1] = "doc"
                       /\ r.loc.docID \in DOMAIN docs
                       /\ r.body[2] = docs[r.loc.docID]
                       /\ r.body[2].id = r.loc.docID
              /\ (StoreCallFailed(r, "insert") \/ StoreCallFailed(r, "get-by-id"))
                    => r.status = StatusInternalServerError

-----------------------------------------------------------------------------
(* SpecCancel: one connection; a run whose compilations fail or not, in    *)
(* which the stores work, and whose client may go away at any point.       *)

NextCancel ==
    \/ Begin(1, CreateRoute, Cookie(Sid(1)), TRUE, CreateIn(TRUE, ShortTopic, "m", "Quick", "k"))
    \/ \E o \in {Ok(Planned(1)), [kind |-> "transport"]} : CreatePlan(1, o)
    \/ CreateSearch(1, Ok(<<Source1>>))
    \/ CreateReport(1, Ok("BODY"))
    \/ \E o \in PdfOutcomes : CreateCompilePDF(1, o)
    \/ \E o \in TexOutcomes : CreateCompileTex(1, o)
    \/ CreateUploadPDF(1, TRUE)
    \/ CreateUploadTex(1, TRUE)
    \/ CreateInsert(1, TRUE)
    \/ CreateReread(1, TRUE)
    \/ Cancel(1)
    \/ Close(1)

SpecCancel == InitLoggedIn /\ [][NextCancel]_vars

\* C21: once the context of a run is canceled, the next step of the run
\* ends it (the call in flight is abandoned, no later stage starts) and the
\* Artifact Store and the Result Store stay as they are.
C21_CanceledRunStops ==
    [][\A s \in Slots :
          (req[s].canceled /\ req'[s] # req[s])
             => /\ req'[s].pc \in {"done", "idle"}
                /\ storeVars' = storeVars]_vars

-----------------------------------------------------------------------------
(* SpecRegister: two connections; registrations with every field empty in  *)
(* turn, with a taken username, a taken email, and a failing database.     *)

RegisterCases == {<<"alice", "a@x", "pw1", "none">>, <<"bob", "b@x", "pw2", "none">>,
                  <<"carol", "c@x", "pw1", "none">>, <<"alice", "z@x", "pw3", "none">>,
                  <<"zed", "a@x", "pw3", "none">>, <<"", "a@x", "pw1", "none">>,
                  <<"alice", "", "pw1", "none">>, <<"alice", "a@x", "", "none">>,
                  <<"", "", "", "none">>, <<"bob", "b@x", "pw2", "db">>}

NextRegister ==
    \/ \E s \in Slots, i \in RegisterCases : Register(s, i[1], i[2], i[3], DbOk(i[4]))
    \/ \E s \in Slots : Close(s)

SpecRegister == Init /\ [][NextRegister]_vars

\* A registration that has been answered.
Registered(r) == r.route = RegisterRoute /\ r.pc = "done"

EmptyField(in) == in.username = "" \/ in.email = "" \/ in.password = ""

\* C22: a registration with an empty username, email or password is
\* answered 400 and writes no user; any user a registration does write
\* carries the bcrypt hash of the password that was sent, with a salt, and
\* nothing else is ever stored as a password.
C22_RegisterStoresOnlyHash ==
    [][\A s \in Slots :
          (req'[s] # req[s] /\ Registered(req'[s]))
             => LET r == req'[s]
                IN /\ EmptyField(r.in) =>
                        (r.status = StatusBadRequest /\ users' = users)
                   /\ \A u \in users' \ users :
                        /\ ~EmptyField(r.in)
                        /\ u.username = r.in.username
                        /\ u.password[1] = "bcrypt"
                        /\ CompareHashAndPassword(u.password, r.in.password)
                   /\ \A u \in users' : u.password[1] = "bcrypt"]_vars

C22_Witness ==
    \E s \in Slots :
       /\ Registered(req[s])
       /\ req[s].status = StatusCreated
       /\ \E u \in users : u.username = req[s].in.username /\ u.password[1] = "bcrypt"

\* C23: a registration is answered 409 only when its username or its email
\* is that of an existing user; a database failure is not a conflict.
C23_ConflictOnlyOnDuplicate ==
    \A s \in Slots :
       (Registered(req[s]) /\ req[s].status = StatusConflict)
          => \E u \in users :
                u.username = req[s].in.username \/ u.email = req[s].in.email

-----------------------------------------------------------------------------
(* The listing, checked under SpecRoutes. *)

\* A listing that has been answered with the documents.
Listed(r) == r.route = ListRoute /\ r.pc = "done" /\ r.status = StatusOK

\* C24: the list answered to a subject holds each record whose user_id is
\* the subject, once, and no other record, the newer before the older; it
\* is the empty list when the subject owns nothing.
C24_ListIsOwnNewestFirst ==
    \A s \in Slots :
       Listed(req[s])
          => LET l == req[s].body[2]
                 own == {docs[k] : k \in {i \in DOMAIN docs : docs[i].user_id = req[s].userID}}
             IN /\ req[s].body[1] = "docs"
                /\ {l[i] : i \in 1..Len(l)} = own
                /\ Len(l) = Cardinality(own)
                /\ \A i, j \in 1..Len(l) : i < j => l[i].created_at >= l[j].created_at
                /\ own = {} => l = <<>>

C24_Witness ==
    \E s \in Slots :
       /\ Listed(req[s])
       /\ Len(req[s].body[2]) = 2
       /\ req[s].body[2][1].created_at > req[s].body[2][2].created_at

-----------------------------------------------------------------------------
(* The downloads of artifacts that are not there, checked under SpecRoutes. *)

\* The key the download route reads from the record.
RouteKey(route, doc) ==
    IF route = PDFRoute THEN doc.pdf_object_key ELSE doc.tex_object_key

\* C25: an answered download of an unknown id, or of a record whose key
\* names no object of the Artifact Store, is a 404.
C25_MissingArtifactIs404 ==
    \A s \in Slots :
       LET r == req[s]
       IN (/\ r.route \in {PDFRoute, TexRoute}
           /\ r.ran
           /\ r.pc = "done"
           /\ \/ r.in.id \notin DOMAIN docs
              \/ RouteKey(r.route, docs[r.in.id]) \notin DOMAIN objects)
          => r.status = StatusNotFound

-----------------------------------------------------------------------------
(* The login, checked under SpecAuth. *)

\* The request is a login whose email and password are those of a user.
MatchingLogin(r) ==
    /\ r.route = LoginRoute
    /\ \E u \in users : u.email = r.in.email /\ CompareHashAndPassword(u.password, r.in.password)

-----------------------------------------------------------------------------
(* What the auth responses carry, checked under SpecAuth. *)

\* C27: every answered Register, Login and Me carries either an error text
\* or a user object whose fields are id, username, email and created_at:
\* no password field, also on Login, where the row was read with its hash.
C27_NoHashInResponse ==
    \A s \in Slots :
       LET r == req[s]
       IN (r.route \in {RegisterRoute, LoginRoute, MeRoute} /\ r.pc = "done")
             => /\ r.body[1] \in {"user", "error"}
                /\ r.body[1] = "user" =>
                      DOMAIN r.body[2] = {"id", "username", "email", "created_at"}
                /\ r.body[1] = "error" => r.body[3] = <<>>

C27_Witness ==
    \E s \in Slots :
       /\ req[s].route = LoginRoute
       /\ req[s].pc = "done"
       /\ req[s].status = StatusOK
       /\ req[s].body[1] = "user"
       /\ \E u \in users : u.id = req[s].body[2].id /\ u.password # <<>>

-----------------------------------------------------------------------------
(* SpecRun: one connection; one valid request; every collaborator call and *)
(* every store call of the run fails or not.                               *)

NextRun ==
    \/ Begin(1, CreateRoute, Cookie(Sid(1)), TRUE, CreateIn(TRUE, ShortTopic, "m", "Quick", "k"))
    \/ \E o \in Failures \cup {Ok(Planned(1))} : CreatePlan(1, o)
    \/ \E o \in Failures \cup {Ok(<<Source1>>)} : CreateSearch(1, o)
    \/ \E o \in Failures \cup {Ok(""), Ok("BODY")} : CreateReport(1, o)
    \/ \E o \in PdfOutcomes : CreateCompilePDF(1, o)
    \/ \E o \in TexOutcomes : CreateCompileTex(1, o)
    \/ \E ok \in BOOLEAN : CreateUploadPDF(1, ok)
    \/ \E ok \in BOOLEAN : CreateUploadTex(1, ok)
    \/ \E ok \in BOOLEAN : CreateInsert(1, ok)
    \/ \E ok \in BOOLEAN : CreateReread(1, ok)
    \/ Close(1)

SpecRun == InitLoggedIn /\ [][NextRun]_vars

\* The stage a logged call of a run belongs to.
StageOf(e) ==
    IF e.call = "upload"
    THEN (IF e.args[3] = "application/pdf" THEN "upload-pdf" ELSE "upload-tex")
    ELSE e.call

\* The place of a stage in the order of the run.
StageRank(e) ==
    CASE StageOf(e) = "generate-queries" -> 1
      [] StageOf(e) = "search" -> 2
      [] StageOf(e) = "generate-report" -> 3
      [] StageOf(e) = "compile-pdf" -> 4
      [] StageOf(e) = "compile-tex" -> 5
      [] StageOf(e) = "upload-pdf" -> 6
      [] StageOf(e) = "upload-tex" -> 7
      [] StageOf(e) = "insert" -> 8
      [] StageOf(e) = "get-by-id" -> 9

\* C28: a step of a run makes one call, after every call before it has
\* returned (they are the log), and the call belongs to a later stage than
\* all of them: planning, search, drafting, PDF compilation and .tex
\* compilation come first, each right after the one before; then the PDF
\* upload, the .tex upload, the insert, and the re-read right after the insert.
C28_StagesInOrder ==
    [][\A s \in Slots :
          (req'[s].route = CreateRoute /\ req'[s].log # req[s].log)
             => LET l == req[s].log
                    e == Last(req'[s].log)
                IN /\ req'[s].log = Append(l, e)
                   /\ \A i \in 1..Len(l) : StageRank(l[i]) < StageRank(e)
                   /\ \A k \in 1..Min(StageRank(e) - 1, 5) :
                         k <= Len(l) /\ StageRank(l[k]) = k
                   /\ StageRank(e) = 9 => StageRank(Last(l)) = 8]_vars

C28_Witness ==
    \E s \in Slots :
       /\ req[s].route = CreateRoute
       /\ req[s].status = StatusCreated
       /\ Len(req[s].log) = 9
       /\ \A k \in 1..9 : StageRank(req[s].log[k]) = k

\* The position a run is at while it is about to make, or is making, the
\* call of a stage.
PcOf(e) ==
    CASE StageOf(e) = "generate-queries" -> "handler"
      [] StageOf(e) = "search" -> "search"
      [] StageOf(e) = "generate-report" -> "report"
      [] StageOf(e) = "compile-pdf" -> "pdf"
      [] StageOf(e) = "compile-tex" -> "tex"
      [] StageOf(e) = "upload-pdf" -> "upload-pdf"
      [] StageOf(e) = "upload-tex" -> "upload-tex"
      [] StageOf(e) = "insert" -> "insert"
      [] StageOf(e) = "get-by-id" -> "reread"

\* The logged call did not succeed.
Failed(e) == IF StageRank(e) <= 5 THEN e.out.kind # "ok" ELSE ~e.out

\* C29: no stage of a run is called twice, and once a call has returned the
\* run is never again at the point of making it; a failed planning, search,
\* drafting or insert call is the last call of the run, which is answered
\* with an error at once.
C29_NoRetry ==
    \A s \in Slots :
       LET r == req[s]
       IN r.route = CreateRoute
             => /\ \A i, j \in 1..Len(r.log) : i # j => StageOf(r.log[i]) # StageOf(r.log[j])
                /\ \A i \in 1..Len(r.log) : r.pc # PcOf(r.log[i])
                /\ \A i \in 1..Len(r.log) :
                      (Failed(r.log[i]) /\ StageRank(r.log[i]) \in {1, 2, 3, 8})
                         => /\ i = Len(r.log)
                            /\ r.pc = "done"
                            /\ r.status \in {StatusBadGateway, StatusInternalServerError}

C29_Witness ==
    \E s \in Slots :
       /\ req[s].route = CreateRoute
       /\ req[s].pc = "done"
       /\ req[s].status = StatusCreated
       /\ \E i, j \in 1..Len(req[s].log) :
             /\ StageOf(req[s].log[i]) = "compile-tex" /\ Failed(req[s].log[i])
             /\ StageOf(req[s].log[j]) = "upload-pdf" /\ Failed(req[s].log[j])


\* The run has logged a call of the stage; with a good outcome.
StageLogged(r, stage) == \E i \in 1..Len(r.log) : StageOf(r.log[i]) = stage
StageSucceeded(r, stage) ==
    \E i \in 1..Len(r.log) : StageOf(r.log[i]) = stage /\ ~Failed(r.log[i])

\* C30: in a run that is past its uploads, the PDF (the .tex) upload was
\* attempted exactly when the PDF (the .tex) compilation returned without
\* error, and a failed compilation leaves the key of its artifact empty.
C30_UploadIffCompiled ==
    \A s \in Slots :
       LET r == req[s]
       IN (/\ r.route = CreateRoute
           /\ StageLogged(r, "compile-tex")
           /\ r.pc \in {"insert", "reread", "done"})
          => /\ StageLogged(r, "upload-pdf") <=> StageSucceeded(r, "compile-pdf")
             /\ StageLogged(r, "upload-tex") <=> StageSucceeded(r, "compile-tex")
             /\ ~StageSucceeded(r, "compile-pdf") => r.loc.pdfKey = NoKey
             /\ ~StageSucceeded(r, "compile-tex") => r.loc.texKey = NoKey

-----------------------------------------------------------------------------
(* The keys of the record, checked under SpecRun. *)

\* The document the run handed to the insert.
InsertedDoc(r) == (CHOOSE e \in {r.log[i] : i \in 1..Len(r.log)} : StageOf(e) = "insert").args[1]

\* The run logged a call of the stage, and it failed.
StageFailed(r, stage) ==
    \E i \in 1..Len(r.log) : StageOf(r.log[i]) = stage /\ Failed(r.log[i])

\* C31: the record a run hands to the insert has a pdf_object_key exactly
\* when the PDF upload of this run succeeded, and a tex_object_key exactly
\* when the .tex upload of this run succeeded, each whatever came of the
\* other; a run in which an upload failed still makes the insert, and
\* answers 201 when the insert succeeds.
C31_FailedUploadClearsOwnKey ==
    \A s \in Slots :
       LET r == req[s]
       IN r.route = CreateRoute
             => /\ StageLogged(r, "insert") =>
                      /\ InsertedDoc(r).pdf_object_key # NoKey <=> StageSucceeded(r, "upload-pdf")
                      /\ InsertedDoc(r).tex_object_key # NoKey <=> StageSucceeded(r, "upload-tex")
                /\ (r.pc = "done" /\ (StageFailed(r, "upload-pdf") \/ StageFailed(r, "upload-tex")))
                      => /\ StageLogged(r, "insert")
                         /\ StageSucceeded(r, "insert") => r.status = StatusCreated

C31_Witness ==
    \E s \in Slots :
       /\ req[s].route = CreateRoute
       /\ req[s].pc = "done"
       /\ req[s].status = StatusCreated
       /\ StageFailed(req[s], "upload-pdf")
       /\ StageSucceeded(req[s], "upload-tex")
       /\ InsertedDoc(req[s]).pdf_object_key = NoKey
       /\ InsertedDoc(req[s]).tex_object_key # NoKey

-----------------------------------------------------------------------------
(* SpecRecord: one connection; runs of both users on topics shorter than,  *)
(* as long as and longer than the slug, with and without a model name;     *)
(* nothing fails.                                                          *)

ExactTopic == [i \in 1..SlugLen |-> 5]

RecordInputs == {CreateIn(TRUE, t, m, "Quick", "k") :
                    t \in {ShortTopic, ExactTopic, LongTopic}, m \in {"", "m"}}

NextRecord ==
    \/ \E c \in {Cookie(Sid(1)), Cookie(Sid(2))}, in \in RecordInputs :
          Begin(1, CreateRoute, c, TRUE, in)
    \/ CreatePlan(1, Ok(Planned(3)))
    \/ CreateSearch(1, Ok(<<Source1, Source2>>))
    \/ CreateReport(1, Ok("BODY"))
    \/ SmoothTail(1)
    \/ Close(1)

SpecRecord == InitLoggedIn /\ [][NextRecord]_vars

\* The key of an artifact as the claim spells it: owner, slug, extension.
KeyForm(owner, topic, ext) == <<owner, FirstN(topic, 20), ext>>

\* The extension an upload of this content type goes with.
ExtOf(contentType) == IF contentType = "application/pdf" THEN "pdf" ELSE "tex"

OutcomeOf(r, stage) ==
    (CHOOSE e \in {r.log[i] : i \in 1..Len(r.log)} : StageOf(e) = stage).out.value

ArgsOf(r, stage) ==
    (CHOOSE e \in {r.log[i] : i \in 1..Len(r.log)} : StageOf(e) = stage).args

\* C33: the record a run inserts has the subject the middleware resolved
\* as its owner, the topic of the request, the drafted body, the sources
\* the search returned in their order, the planned queries cut to the
\* depth's count, and the model of the request, or mistral-medium-latest
\* when the request named none; planning and drafting were called with
\* that same model; the stored record carries the same values.
C33_RecordFields ==
    \A s \in Slots :
       LET r == req[s]
       IN (r.route = CreateRoute /\ StageLogged(r, "insert"))
             => LET doc == InsertedDoc(r)
                    model == IF r.in.model = "" THEN "mistral-medium-latest" ELSE r.in.model
                IN /\ doc.user_id = r.resolved
                   /\ doc.topic = r.in.topic
                   /\ doc.latex_content = OutcomeOf(r, "generate-report")
                   /\ doc.sources = OutcomeOf(r, "search")
                   /\ doc.search_queries =
                         FirstN(OutcomeOf(r, "generate-queries"), DepthConfig[r.in.depth][1])
                   /\ doc.model_used = model
                   /\ ArgsOf(r, "generate-queries")[2] = model
                   /\ ArgsOf(r, "generate-report")[2] = model
                   /\ r.pc = "done" =>
                         /\ r.loc.docID \in DOMAIN docs
                         /\ docs[r.loc.docID] =
                               [doc EXCEPT !.id = r.loc.docID,
                                           !.created_at = docs[r.loc.docID].created_at]

C33_Witness ==
    \E s \in Slots :
       /\ req[s].route = CreateRoute
       /\ req[s].status = StatusCreated
       /\ req[s].resolved = Bob.id
       /\ req[s].in.model = ""
       /\ InsertedDoc(req[s]).model_used = "mistral-medium-latest"
       /\ InsertedDoc(req[s]).user_id = Bob.id
       /\ Len(InsertedDoc(req[s]).search_queries) = 2
       /\ Len(OutcomeOf(req[s], "generate-queries")) = 3

-----------------------------------------------------------------------------
(* The clean-up of a deletion, checked under SpecDelete. *)

IsRemove(e) == e.call = "remove"

\* The keys the deletion asked the Artifact Store to remove, in order.
Removals(r) == LET q == SelectSeq(r.log, IsRemove) IN [i \in 1..Len(q) |-> q[i].args[1]]

\* The non-empty keys of a record: the PDF's, then the .tex's.
KeysOf(doc) ==
    (IF doc.pdf_object_key # NoKey THEN <<doc.pdf_object_key>> ELSE <<>>)
       \o (IF doc.tex_object_key # NoKey THEN <<doc.tex_object_key>> ELSE <<>>)

\* The deletion has got as far as deleting the record.
AtRecordDeletion(r) ==
    /\ r.route = DeleteRoute
    /\ r.pc = "delete" \/ (r.pc = "done" /\ Len(r.log) > 0 /\ Last(r.log).call = "delete")

\* C34: by the time a deletion deletes the record it has asked for the
\* removal of each non-empty key of the record, the PDF's before the
\* .tex's, and of nothing else; when those removals succeeded and the
\* deletion is answered, no object is left under either key.
C34_RemovalsBeforeRecord ==
    \A s \in Slots :
       LET r == req[s]
       IN AtRecordDeletion(r)
             => /\ Removals(r) = KeysOf(r.loc)
                /\ \A i \in 1..Len(r.log) :
                      r.log[i].call = "delete" => i = Len(r.log)
                /\ (r.pc = "done" /\ \A i \in 1..Len(r.log) : IsRemove(r.log[i]) => r.log[i].out)
                      => \A i \in 1..Len(KeysOf(r.loc)) : KeysOf(r.loc)[i] \notin DOMAIN objects

C34_Witness ==
    \E s \in Slots :
       /\ AtRecordDeletion(req[s])
       /\ req[s].status = StatusOK
       /\ Len(KeysOf(req[s].loc)) = 2
       /\ Removals(req[s]) = KeysOf(req[s].loc)
       /\ \A i \in 1..Len(req[s].log) : IsRemove(req[s].log[i]) => req[s].log[i].out
       /\ req[s].in.id \notin DOMAIN docs


\* The removals of the deletion that the Artifact Store failed.
FailedRemovals(r) == {i \in 1..Len(r.log) : IsRemove(r.log[i]) /\ ~r.log[i].out}

\* C35: a deletion has written one log event for each removal that failed,
\* and has gone on past that removal.
C35_FailedRemovalLogged ==
    \A s \in Slots :
       LET r == req[s]
       IN r.route = DeleteRoute
             => /\ Len(r.events) >= Cardinality(FailedRemovals(r))
                /\ FailedRemovals(r) # {} => r.pc \in {"remove-tex", "delete", "done"}

-----------------------------------------------------------------------------
(* Requests that name no record, checked under SpecRoutes. *)

\* The handler of a Get or a Delete is about to look up an id that is the
\* id of no record.
NamesNoRecord(r) ==
    /\ r.route \in {GetRoute, DeleteRoute}
    /\ r.pc = "handler"
    /\ r.in.id \notin DOMAIN docs

\* C36: the step of a Get or a Delete that looks up an id of no record
\* (never assigned, or no ObjectID at all) answers 404 and leaves the
\* Result Store and the Artifact Store as they were.
C36_UnknownIdIs404 ==
    [][\A s \in Slots :
          (NamesNoRecord(req[s]) /\ req'[s] # req[s])
             => /\ req'[s].pc = "done"
                /\ req'[s].status = StatusNotFound
                /\ Len(req'[s].log) = 1
                /\ storeVars' = storeVars]_vars

C36_Witness ==
    \E s \in Slots :
       /\ req[s].route = DeleteRoute
       /\ req[s].pc = "done"
       /\ req[s].status = StatusNotFound
       /\ req[s].in.id = "zz"
       /\ DOMAIN docs # {}
       /\ DOMAIN objects # {}

-----------------------------------------------------------------------------
(* A failed insert, checked under SpecRun. *)

\* The keys under which the run uploaded with success.
Uploaded(r) ==
    {r.log[i].args[1] : i \in {j \in 1..Len(r.log) : r.log[j].call = "upload" /\ r.log[j].out}}

\* C37: the step in which the insert of a run fails answers 500, adds no
\* record to the Result Store, and leaves the Artifact Store as it was:
\* what the run uploaded is still there, named by no record of the run.
C37_FailedInsertLeavesArtifacts ==
    [][\A s \in Slots :
          (Called(s, {"insert"}) /\ ~Last(req'[s].log).out)
             => /\ req'[s].pc = "done"
                /\ req'[s].status = StatusInternalServerError
                /\ docs' = docs
                /\ nextOid' = nextOid
                /\ objects' = objects
                /\ Uploaded(req'[s]) \subseteq DOMAIN objects']_vars

C37_Witness ==
    \E s \in Slots :
       /\ req[s].route = CreateRoute
       /\ req[s].pc = "done"
       /\ req[s].status = StatusInternalServerError
       /\ StageFailed(req[s], "insert")
       /\ Cardinality(Uploaded(req[s])) = 2
       /\ Uploaded(req[s]) \subseteq DOMAIN objects
       /\ docs = Empty

-----------------------------------------------------------------------------
(* Whose records a request reaches, checked under SpecRoutes. *)

\* The record a Get, a Delete or a download that was answered 200 acted on.
RecordReached(r) == IF r.route = GetRoute THEN r.body[2] ELSE r.loc

\* C38: a Get, a Delete or a download answered 200 acted on a record whose
\* user_id is the subject of the request.
C38_OnlyOwnRecords ==
    \A s \in Slots :
       LET r == req[s]
       IN (/\ r.route \in {GetRoute, DeleteRoute, PDFRoute, TexRoute}
           /\ r.pc = "done"
           /\ r.status = StatusOK)
          => RecordReached(r).user_id = r.userID

-----------------------------------------------------------------------------
(* SpecOverwrite: two connections; runs of both users on one topic whose   *)
(* drafts differ, the LaTeX service compiling the draft it is sent; then   *)
(* downloads; nothing fails.                                               *)

Drafts == {"BODY1", "BODY2"}

\* What the LaTeX service answers for a draft.
PdfOf(latexBody) == "PDF of " \o latexBody
TexOf(latexBody) == "TEX of " \o latexBody

NextOverwrite ==
    \/ \E s \in Slots, c \in {Cookie(Sid(1)), Cookie(Sid(2))} :
          Begin(s, CreateRoute, c, TRUE, CreateIn(TRUE, ShortTopic, "m", "Quick", "k"))
    \/ \E s \in Slots : CreatePlan(s, Ok(Planned(1)))
    \/ \E s \in Slots : CreateSearch(s, Ok(<<Source1>>))
    \/ \E s \in Slots, b \in Drafts : CreateReport(s, Ok(b))
    \/ \E s \in Slots : CreateCompilePDF(s, Ok(PdfOf(req[s].loc.latexBody)))
    \/ \E s \in Slots : CreateCompileTex(s, Ok(TexOf(req[s].loc.latexBody)))
    \/ \E s \in Slots : CreateUploadPDF(s, TRUE)
    \/ \E s \in Slots : CreateUploadTex(s, TRUE)
    \/ \E s \in Slots : CreateInsert(s, TRUE)
    \/ \E s \in Slots : CreateReread(s, TRUE)
    \/ \E route \in {PDFRoute, TexRoute}, id \in DOMAIN docs :
          Begin(1, route, Cookie(Sid(1)), TRUE, IdIn(id))
    \/ DownloadLookup(1, TRUE)
    \/ DownloadFetch(1, TRUE)
    \/ \E s \in Slots : Close(s)

SpecOverwrite == InitLoggedIn /\ [][NextOverwrite]_vars

\* C39: a download answered 200 serves what was compiled from the draft of
\* the record it was asked for: the PDF of its latex_content on the PDF
\* route, the .tex of its latex_content on the .tex route.
C39_DownloadServesOwnArtifact ==
    \A s \in Slots :
       LET r == req[s]
       IN (r.route \in {PDFRoute, TexRoute} /\ r.pc = "done" /\ r.status = StatusOK)
             => r.body[2] = Bytes(IF r.route = PDFRoute THEN PdfOf(r.loc.latex_content)
                                  ELSE TexOf(r.loc.latex_content))

====
